---- MODULE Spec2Model ----
(***************************************************************************)
(* Remote signing adapters of solana-signers (TypeScript packages vault,   *)
(* privy, turnkey and core): the signer contract, the signature codec, the *)
(* Turnkey request stamper and the error taxonomy.                         *)
(*                                                                         *)
(* Strings are sequences of character codes.  Codes 0..63 are the base64   *)
(* alphabet (A-Z a-z 0-9 + /), 64 is ':' and 65 is '='.  Hex strings are   *)
(* sequences of nibbles 0..15.  Bytes are 0..255.                          *)
(***************************************************************************)
EXTENDS Integers, Sequences, FiniteSets, TLC

\* ---------------------------------------------------------------- bounds
MaxBatch == 2
MaxCalls == 1

\* payloads of a batch in the specification of the pacer
PacerBatch == 3

\* payloads of a batch in the specification of concurrent calls
ConcurrentBatch == 1

\* ------------------------------------------------------- program constants
SignatureLength == 64
JWK_MEMBER_BYTE_LENGTH == 32
CompressedKeyLength == 33
MaxDelayWithoutWarning == 3000

\* ------------------------------------------------------------ error codes
CONFIG_ERROR == "SIGNER_CONFIG_ERROR"
HTTP_ERROR == "SIGNER_HTTP_ERROR"
REMOTE_API_ERROR == "SIGNER_REMOTE_API_ERROR"
PARSING_ERROR == "SIGNER_PARSING_ERROR"
SIGNING_FAILED == "SIGNER_SIGNING_FAILED"

\* Errors that are not SignerError instances (thrown by the runtime or by a
\* library) keep the name of their class as code.
TypeError == "TypeError"
SyntaxError == "SyntaxError"
SolanaError == "SolanaError"
FetchError == "FetchError"

SignerErrorCodes == {CONFIG_ERROR, HTTP_ERROR, REMOTE_API_ERROR, PARSING_ERROR, SIGNING_FAILED}

NoError == [code |-> "", status |-> 0, cause |-> "", message |-> "", response |-> ""]

\* throwSignerError(code, context): the SignerError that is thrown
SignerError(code, message, status, cause) ==
    [code |-> code, status |-> status, cause |-> cause, message |-> message, response |-> ""]

\* an error thrown by the runtime or a library, not a SignerError
RawError(class) == [code |-> class, status |-> 0, cause |-> "", message |-> "", response |-> ""]

\* the context member response: errorText, the text of the error body
WithResponse(error, errorText) == [error EXCEPT !.response = errorText]

\* ------------------------------------------------------------ byte helpers
Pow2(n) == CASE n = 0 -> 1 [] n = 2 -> 4 [] n = 4 -> 16 [] n = 6 -> 64 [] n = 8 -> 256 [] OTHER -> 2 ^ n

Min(a, b) == IF a < b THEN a ELSE b

\* a function over 1..n as a sequence held element by element
AsSeq(f) == f \o <<>>

Repeat(x, n) == AsSeq([i \in 1..n |-> x])

\* bytes.slice(from, to) of a Uint8Array, 0-based, end exclusive, clamped
Slice(bytes, from, to) ==
    LET hi == Min(to, Len(bytes))
    IN  IF from >= hi THEN <<>> ELSE AsSeq([i \in 1..(hi - from) |-> bytes[from + i]])

StartsWith(s, prefix) ==
    /\ Len(s) >= Len(prefix)
    /\ \A i \in 1..Len(prefix) : s[i] = prefix[i]

\* ------------------------------------------------------------------ base64
Colon == 64
PadChar == Colon + 1

IsBase64Char(c) == c \in 0..63

StripPad(s) == SelectSeq(s, LAMBDA c : c # PadChar)

\* getBase64Encoder().encode(string): the bytes a base64 string stands for.
\* Defined for strings over the alphabet; '=' is dropped first.
Base64ToBytes(s) ==
    LET cs == StripPad(s)
        m  == Len(cs)
        n  == (m * 6) \div 8
        ch(j) == IF j <= m THEN cs[j] ELSE 0
    IN  AsSeq([k \in 1..n |->
            LET bit == 8 * (k - 1)
                j   == (bit \div 6) + 1
                off == bit % 6
            IN  ((ch(j) * 64 + ch(j + 1)) \div Pow2(4 - off)) % 256])

\* the same encoder rejects a string with a character outside the alphabet
Base64Valid(s) == \A i \in 1..Len(s) : IsBase64Char(s[i]) \/ s[i] = PadChar

\* getBase64Decoder().decode(bytes): padded base64 text of a byte array
BytesToBase64(bytes) ==
    LET m  == Len(bytes)
        n  == (m * 8 + 5) \div 6
        by(j) == IF j <= m THEN bytes[j] ELSE 0
        padded == ((n + 3) \div 4) * 4
    IN  AsSeq([k \in 1..padded |->
            IF k > n THEN PadChar
            ELSE LET bit == 6 * (k - 1)
                     j   == (bit \div 8) + 1
                     off == bit % 8
                 IN  ((by(j) * 256 + by(j + 1)) \div Pow2(10 - off)) % 64])

\* --------------------------------------------------------------------- hex
\* getBase16Encoder().encode(hex): one byte per pair of nibbles; a trailing
\* single nibble is a byte of its own
HexToBytes(hex) ==
    LET n == (Len(hex) + 1) \div 2
        m == Len(hex)
    IN  AsSeq([k \in 1..n |->
            IF 2 * k <= m THEN hex[2 * k - 1] * 16 + hex[2 * k]
            ELSE hex[2 * k - 1]])

\* getBase16Decoder().decode(bytes)
BytesToHex(bytes) ==
    AsSeq([k \in 1..(2 * Len(bytes)) |->
        IF k % 2 = 1 THEN bytes[(k + 1) \div 2] \div 16 ELSE bytes[k \div 2] % 16])

\* Buffer.from(hex, 'hex').length: whole pairs only
BufferHexLength(hex) == Len(hex) \div 2

\* --------------------------------------------------------------- addresses
\* assertIsAddress accepts exactly the well-formed base58 public keys
ValidAddresses == {"AddrA", "AddrB"}

IsAddress(a) == a \in ValidAddresses

\* the 32 bytes of the public key an address stands for
AddressBytes(a) == IF a = "AddrA" THEN Repeat(10, 32) ELSE Repeat(11, 32)

\* ------------------------------------------------------------ hex API keys
HexOfBytes(first, rest, n) == BytesToHex(<<first>> \o Repeat(rest, n - 1))

GoodPublicKeyHex == HexOfBytes(2, 171, 33)
ShortPublicKeyHex == HexOfBytes(2, 171, 32)
LongPublicKeyHex == HexOfBytes(2, 171, 34)
OffCurvePublicKeyHex == HexOfBytes(5, 171, 33)

GoodPrivateKeyHex == HexOfBytes(201, 175, 32)
ShortPrivateKeyHex == HexOfBytes(201, 175, 31)
LongPrivateKeyHex == HexOfBytes(201, 175, 33)

\* p256.Point.fromHex: a compressed point starts with 02 or 03
PointFromHexOk(publicKeyHex) ==
    /\ Len(publicKeyHex) > 0
    /\ HexToBytes(publicKeyHex)[1] \in {2, 3}

\* ----------------------------------------------------------------- stamper
Ok(v) == [ok |-> TRUE, value |-> v, error |-> NoError]
Fail(e) == [ok |-> FALSE, value |-> <<>>, error |-> e]

\* hexToBase64url(hex, paddedLength): the padded bytes (before base64url)
hexToBase64url(hex, paddedLength) ==
    LET evenHex == IF Len(hex) % 2 = 0 THEN hex ELSE <<0>> \o hex
        bytes   == HexToBytes(evenHex)
    IN  IF Len(bytes) < paddedLength
        THEN Ok(Repeat(0, paddedLength - Len(bytes)) \o bytes)
        ELSE IF Len(bytes) > paddedLength
        THEN Fail(SignerError(CONFIG_ERROR, "Hex string too long", 0, ""))
        ELSE Ok(bytes)

\* convertTurnkeyApiKeyToJwk(privateKeyHex, publicKeyHex)
convertTurnkeyApiKeyToJwk(privateKeyHex, publicKeyHex) ==
    IF BufferHexLength(publicKeyHex) # CompressedKeyLength
    THEN Fail(SignerError(CONFIG_ERROR, "Public key must be 33 bytes", 0, ""))
    ELSE IF BufferHexLength(privateKeyHex) # JWK_MEMBER_BYTE_LENGTH
    THEN Fail(SignerError(CONFIG_ERROR, "Private key must be 32 bytes", 0, ""))
    ELSE IF ~PointFromHexOk(publicKeyHex)
    THEN Fail(SignerError(CONFIG_ERROR, "Failed to convert API key to JWK", 0, SolanaError))
    ELSE LET d == hexToBase64url(privateKeyHex, JWK_MEMBER_BYTE_LENGTH)
         IN  IF ~d.ok
             THEN Fail(SignerError(CONFIG_ERROR, "Failed to convert API key to JWK", 0, d.error.code))
             ELSE Ok(d.value)

\* what stamp() does with a failure of the conversion: the catch around the
\* whole body rethrows it as SIGNING_FAILED with the failure as cause
StampFailure(inner) ==
    SignerError(SIGNING_FAILED, "Failed to create authentication stamp", 0, inner.code)

\* ApiKeyStamper.stamp(message), for the key pair of the stamper
stamp(apiPrivateKey, apiPublicKey, message) ==
    LET jwk == convertTurnkeyApiKeyToJwk(apiPrivateKey, apiPublicKey)
    IN  IF jwk.ok
        THEN Ok([stampHeaderName |-> "X-Stamp", publicKey |-> apiPublicKey, over |-> message])
        ELSE Fail(StampFailure(jwk.error))

\* ------------------------------------------------------------ stamp value
\* Texts of the stamp are sequences of ASCII codes.
\* a lower-case hex digit
HexDigitCode(n) == IF n < 10 THEN 48 + n ELSE 87 + n

HexText(hex) == AsSeq([k \in 1..Len(hex) |-> HexDigitCode(hex[k])])

\* the text {"publicKey":"
JsonPublicKeyMember ==
    <<123, 34, 112, 117, 98, 108, 105, 99, 75, 101, 121, 34, 58, 34>>

\* the text ","scheme":"
JsonSchemeMember ==
    <<34, 44, 34, 115, 99, 104, 101, 109, 101, 34, 58, 34>>

\* the text SIGNATURE_SCHEME_TK_API_P256
SIGNATURE_SCHEME_TK_API_P256 ==
    <<83, 73, 71, 78, 65, 84, 85, 82, 69, 95, 83, 67, 72, 69, 77, 69, 95, 84,
      75, 95, 65, 80, 73, 95, 80, 50, 53, 54>>

\* the text ","signature":"
JsonSignatureMember ==
    <<34, 44, 34, 115, 105, 103, 110, 97, 116, 117, 114, 101, 34, 58, 34>>

\* the text "}
JsonEnd ==
    <<34, 125>>

\* an ASN.1 INTEGER of DER: tag 02, length, the big-endian bytes, with a
\* zero byte in front when the first bit is set
DerInteger(bytes) ==
    LET body == IF bytes[1] >= 128 THEN <<0>> \o bytes ELSE bytes
    IN  <<2, Len(body)>> \o body

\* sign.sign(privateKeyObject, 'hex') before the hex encoding: the ECDSA
\* signature (r, s) as a DER SEQUENCE, tag 30 hex
DerSignature(r, s) ==
    LET body == DerInteger(r) \o DerInteger(s)
    IN  <<48, Len(body)>> \o body

\* the r and s an ECDSA signature can have: the nonce is random
EcdsaIntegers == {Repeat(17, 32), <<200>> \o Repeat(17, 31), Repeat(17, 31)}

\* JSON.stringify(stamp): the members in the order they were written
stampJson(apiPublicKey, signatureHex) ==
    JsonPublicKeyMember \o HexText(apiPublicKey)
        \o JsonSchemeMember \o SIGNATURE_SCHEME_TK_API_P256
        \o JsonSignatureMember \o HexText(signatureHex) \o JsonEnd

\* the character of the base64url alphabet for a value of 6 bits
Base64UrlCode(v) ==
    CASE v < 26 -> 65 + v
      [] v < 52 -> 71 + v
      [] v < 62 -> v - 4
      [] v = 62 -> 45
      [] OTHER  -> 95

\* variant: toString('base64'), padded and with '+' and '/'
BufferToBase64(bytes) ==
    LET m  == Len(bytes)
        n  == (m * 8 + 5) \div 6
        by(j) == IF j <= m THEN bytes[j] ELSE 0
        padded == ((n + 3) \div 4) * 4
        Base64Code(v) == IF v = 62 THEN 43 ELSE IF v = 63 THEN 47 ELSE Base64UrlCode(v)
    IN  AsSeq([k \in 1..padded |->
            IF k > n THEN 61
            ELSE LET bit == 6 * (k - 1)
                     j   == (bit \div 8) + 1
                     off == bit % 8
                 IN  Base64Code(((by(j) * 256 + by(j + 1)) \div Pow2(10 - off)) % 64)])

\* Buffer.from(text).toString('base64url'): no padding
BufferToBase64Url(bytes) ==
    LET m  == Len(bytes)
        n  == (m * 8 + 5) \div 6
        by(j) == IF j <= m THEN bytes[j] ELSE 0
    IN  AsSeq([k \in 1..n |->
            LET bit == 6 * (k - 1)
                j   == (bit \div 8) + 1
                off == bit % 8
            IN  Base64UrlCode(((by(j) * 256 + by(j + 1)) \div Pow2(10 - off)) % 64)])

\* the StampResult of stamp() for a signature
StampResult(apiPublicKey, signatureHex) ==
    [stampHeaderName |-> "X-Stamp",
     stampHeaderValue |-> BufferToBase64Url(stampJson(apiPublicKey, signatureHex))]

\* ------------------------------------------------------------ transactions
\* A payload is a message (no signers) or a transaction (its signers, in
\* account order, and the rest of its message).
Concat(seqs) ==
    LET RECURSIVE cat(_)
        cat(k) == IF k = 0 THEN <<>> ELSE cat(k - 1) \o seqs[k]
    IN  cat(Len(seqs))

\* transaction.messageBytes: header (required signatures, two read-only
\* counts), the account list, then the rest
MessageBytes(p) ==
    <<Len(p.signers), 0, 0, Len(p.signers)>>
        \o Concat([k \in 1..Len(p.signers) |-> AddressBytes(p.signers[k])])
        \o p.content

ZeroSignature == Repeat(0, SignatureLength)

\* wire format: signature count, 64 bytes per signature, message bytes
WireBytes(sigs, messageBytes) == <<Len(sigs)>> \o Concat(sigs) \o messageBytes

\* getBase64EncodedWireTransaction(transaction), no signature present yet
\* (the one-element set binds the wire bytes to their value, which is then
\* computed once)
getBase64EncodedWireTransaction(p) ==
    CHOOSE wireTransaction \in
        {BytesToBase64(wireBytes) :
            wireBytes \in {WireBytes([k \in 1..Len(p.signers) |-> ZeroSignature], MessageBytes(p))}} : TRUE

AddressOfBytes(bytes) ==
    IF \E a \in ValidAddresses : AddressBytes(a) = bytes
    THEN CHOOSE a \in ValidAddresses : AddressBytes(a) = bytes
    ELSE "unknown"

\* getTransactionDecoder().decode(bytes): the signatures by signer address
\* (an all-zero slot decodes to null, here <<>>) and the message bytes
DecodeTransaction(bytes) ==
    IF Len(bytes) < 1 THEN Fail(RawError(SolanaError))
    ELSE LET n   == bytes[1]
             off == 1 + SignatureLength * n
         IN  IF Len(bytes) < off + 4 THEN Fail(RawError(SolanaError))
             ELSE LET required == bytes[off + 1]
                      accounts == bytes[off + 4]
                  IN  IF Len(bytes) < off + 4 + 32 * accounts \/ required # n \/ accounts < required
                      THEN Fail(RawError(SolanaError))
                      ELSE LET sig(k)  == Slice(bytes, 1 + SignatureLength * (k - 1), 1 + SignatureLength * k)
                               addr(k) == AddressOfBytes(Slice(bytes, off + 4 + 32 * (k - 1), off + 4 + 32 * k))
                               slot(a) == CHOOSE k \in 1..n : addr(k) = a
                           IN  Ok([signatures |->
                                      [a \in {addr(k) : k \in 1..n} |->
                                          IF sig(slot(a)) = ZeroSignature THEN <<>> ELSE sig(slot(a))],
                                   signers |-> [k \in 1..n |-> addr(k)],
                                   messageBytes |-> Slice(bytes, off, Len(bytes))])

\* ----------------------------------------------------------------- backend
\* The custody backend holds the key of the wallet address and answers each
\* sign request either with a failure or with signature material.
WalletAddress == "AddrA"

Digest(bytes) == IF Len(bytes) = 0 THEN 0 ELSE bytes[1] + Len(bytes)

\* the Ed25519 signature of signer a over the message bytes
BackendSignature(a, messageBytes) ==
    LET seed == AddressBytes(a)[1] * 7 + Digest(messageBytes) * 16
    IN  AsSeq([k \in 1..SignatureLength |-> (seed + k) % 256])

Ans(t, status, variant) == [t |-> t, status |-> status, variant |-> variant]

NetFail == Ans("netfail", 0, "")
NonJson == Ans("nonjson", 200, "")
JsonNull == Ans("null", 200, "")
NoField == Ans("nofield", 200, "")
\* the variant of an answer with a non-success status is the text of its body
Unauthorized == Ans("status", 401, "denied")
\* a success status with a JSON object that lacks the envelope object ('data'
\* for Vault and Privy, 'activity' for Turnkey)
NoEnvelope == Ans("noenvelope", 200, "")
\* a non-success status whose body is a well-formed result with signature
\* material (the body of Unauthorized is a text that is not JSON)
StatusWithResult == Ans("status", 500, "result")
Body(variant) == Ans("body", 200, variant)

FailureAnswers == {NetFail, Unauthorized, NonJson, JsonNull, NoField}

\* ------------------------------------------------------------------- core
\* createSignatureDictionary({signature, signerAddress}); a Uint8Array is
\* truthy whatever its length, so only a null signature (<<>> standing for
\* null is decided by the caller) is refused
createSignatureDictionary(signature, signerAddress) ==
    IF ~IsAddress(signerAddress) THEN Fail(RawError(SolanaError))
    ELSE Ok([a \in {signerAddress} |-> signature])

\* variant: the whole signatures map of the decoded transaction
ExtractAllSignatures(base64WireTransaction, signerAddress) ==
    IF ~IsAddress(signerAddress) \/ ~Base64Valid(base64WireTransaction)
    THEN Fail(RawError(SolanaError))
    ELSE LET tx == DecodeTransaction(Base64ToBytes(base64WireTransaction))
         IN  IF ~tx.ok THEN tx ELSE Ok(tx.value.signatures)

\* variant: without a signature of the signer, the first signature of the
\* transaction is returned under the signer's address
ExtractOwnOrFirstSignature(base64WireTransaction, signerAddress) ==
    IF ~IsAddress(signerAddress) \/ ~Base64Valid(base64WireTransaction)
    THEN Fail(RawError(SolanaError))
    ELSE LET tx == DecodeTransaction(Base64ToBytes(base64WireTransaction))
         IN  IF ~tx.ok THEN tx
             ELSE IF signerAddress \notin DOMAIN tx.value.signatures
                     \/ tx.value.signatures[signerAddress] = <<>>
             THEN createSignatureDictionary(tx.value.signatures[tx.value.signers[1]], signerAddress)
             ELSE createSignatureDictionary(tx.value.signatures[signerAddress], signerAddress)

\* extractSignatureFromWireTransaction({base64WireTransaction, signerAddress})
extractSignatureFromWireTransaction(base64WireTransaction, signerAddress) ==
    IF ~IsAddress(signerAddress) \/ ~Base64Valid(base64WireTransaction)
    THEN Fail(RawError(SolanaError))
    ELSE LET tx == DecodeTransaction(Base64ToBytes(base64WireTransaction))
         IN  IF ~tx.ok THEN tx
             ELSE IF signerAddress \notin DOMAIN tx.value.signatures
                     \/ tx.value.signatures[signerAddress] = <<>>
             THEN Fail(SignerError(SIGNING_FAILED, "No signature found for address", 0, ""))
             ELSE createSignatureDictionary(tx.value.signatures[signerAddress], signerAddress)

\* ------------------------------------------------------------------ vault
\* the text 'vault:v1:'
VaultPrefix == <<47, 26, 46, 37, 45, Colon, 47, 53, Colon>>

\* the signature field of a Vault sign answer to a request for `input`
VaultAnswers ==
    {Body(v) : v \in {"tagged", "untagged", "taggedV2", "tagged63", "tagged65", "tagOnly", "empty"}}

\* the text 'vault:v2:', the tag of a signature made with key version 2
VaultPrefixV2 == <<47, 26, 46, 37, 45, Colon, 47, 54, Colon>>

VaultSignatureField(variant, input) ==
    LET sig == BackendSignature(WalletAddress, Base64ToBytes(input))
    IN  CASE variant = "tagged"   -> VaultPrefix \o BytesToBase64(sig)
          [] variant = "untagged" -> BytesToBase64(sig)
          [] variant = "taggedV2" -> VaultPrefixV2 \o BytesToBase64(sig)
          [] variant = "tagged63" -> VaultPrefix \o BytesToBase64(Slice(sig, 0, 63))
          [] variant = "tagged65" -> VaultPrefix \o BytesToBase64(sig \o <<7>>)
          [] variant = "tagOnly"  -> VaultPrefix
          [] OTHER                -> <<>>

\* VaultSigner.extractSignatureFromVaultFormat(vaultSignature)
extractSignatureFromVaultFormat(vaultSignature) ==
    LET base64Signature ==
            IF StartsWith(vaultSignature, VaultPrefix)
            THEN SubSeq(vaultSignature, Len(VaultPrefix) + 1, Len(vaultSignature))
            ELSE vaultSignature
    IN  IF base64Signature = <<>>
        THEN Fail(SignerError(PARSING_ERROR, "Empty signature in Vault response", 0, ""))
        ELSE IF ~Base64Valid(base64Signature) THEN Fail(RawError(SolanaError))
        ELSE Ok(Base64ToBytes(base64Signature))

\* variant: the status of the response is not put into the error
signWithVaultNoStatus(base64Data, ans) ==
    IF ans.t = "status"
    THEN Fail(SignerError(REMOTE_API_ERROR, "Vault API error", 0, ""))
    ELSE Fail(SignerError(HTTP_ERROR, "Vault network request failed", 0, FetchError))

\* VaultSigner.signWithVault(base64Data), given the answer to its request
signWithVault(base64Data, ans) ==
    CASE ans.t = "netfail" -> Fail(SignerError(HTTP_ERROR, "Vault network request failed", 0, FetchError))
      [] ans.t = "status"  -> Fail(SignerError(REMOTE_API_ERROR, "Vault API error", ans.status, ""))
      [] ans.t = "nonjson" -> Fail(SignerError(PARSING_ERROR, "Failed to parse Vault signing response", 0, SyntaxError))
      [] ans.t = "null"    -> Fail(RawError(TypeError))
      [] ans.t \in {"nofield", "noenvelope"} ->
            Fail(SignerError(REMOTE_API_ERROR, "Missing signature in Vault response", 0, ""))
      [] OTHER ->
            LET signature == VaultSignatureField(ans.variant, base64Data)
            IN  IF signature = <<>>
                THEN Fail(SignerError(REMOTE_API_ERROR, "Missing signature in Vault response", 0, ""))
                ELSE extractSignatureFromVaultFormat(signature)

\* the body of one task of VaultSigner.signMessages / signTransactions after
\* its delay: sign the message bytes, wrap the signature
VaultSignTask(address, op, payload, ans) ==
    LET messageBytes == IF op = "signMessages" THEN payload.content ELSE MessageBytes(payload)
        signatureBytes == signWithVault(BytesToBase64(messageBytes), ans)
    IN  IF ~signatureBytes.ok THEN signatureBytes
        ELSE createSignatureDictionary(signatureBytes.value, address)

\* variant: no catch, the failure propagates
Rethrow(result) == result

\* isAvailable wraps its whole body in try/catch: a failure inside becomes
\* the value false
CatchAll(result) == IF result.ok THEN result ELSE Ok(FALSE)

\* the try block of VaultSigner.isAvailable, given the answer to the key read
VaultProbeAnswers == {Body(v) : v \in {"ed25519", "nosigning", "rsa", "rsa-nosigning"}}

\* the data member of the VaultKeyReadResponse of an answer
VaultKeyData(variant) ==
    [supports_signing |-> variant \in {"ed25519", "rsa"},
     type |-> IF variant \in {"ed25519", "nosigning"} THEN "ed25519" ELSE "rsa-2048"]

\* variant: only the type of the key is looked at
VaultProbeBodyTypeOnly(ans) ==
    IF ans.t = "body" THEN Ok(VaultKeyData(ans.variant).type = "ed25519") ELSE Ok(FALSE)

VaultProbeBody(ans) ==
    CASE ans.t = "netfail" -> Fail(RawError(FetchError))
      [] ans.t = "status"  -> Ok(FALSE)
      [] ans.t = "nonjson" -> Fail(RawError(SyntaxError))
      [] ans.t = "null"    -> Fail(RawError(TypeError))
      [] ans.t = "nofield" -> Ok(FALSE)
      [] OTHER -> Ok(VaultKeyData(ans.variant).supports_signing = TRUE
                     /\ VaultKeyData(ans.variant).type = "ed25519")

\* ------------------------------------------------------------------ privy
PrivyMessageAnswers == {Body(v) : v \in {"sig64", "sig63", "sig65", "notBase64"}}

PrivySignatureField(variant, message) ==
    LET sig == BackendSignature(WalletAddress, Base64ToBytes(message))
    IN  CASE variant = "sig64" -> BytesToBase64(sig)
          [] variant = "sig63" -> BytesToBase64(Slice(sig, 0, 63))
          [] variant = "notBase64" -> <<Colon>> \o BytesToBase64(sig)
          [] OTHER             -> BytesToBase64(sig \o <<7>>)

\* PrivySigner.getSignatureBytes(signature)
getSignatureBytes(signature) ==
    IF ~Base64Valid(signature) THEN Fail(RawError(SolanaError))
    ELSE Ok(Base64ToBytes(signature))

\* the part of PrivySigner.signMessage / signTransaction before the result
\* field is read: fetch is not guarded, json() is not guarded
PrivyEnvelope(ans) ==
    CASE ans.t = "netfail" -> Fail(RawError(FetchError))
      [] ans.t = "status"  -> Fail(WithResponse(SignerError(REMOTE_API_ERROR, "Privy API signing error", ans.status, ""), ans.variant))
      [] ans.t = "nonjson" -> Fail(RawError(SyntaxError))
      [] ans.t = "null"    -> Fail(RawError(TypeError))
      [] ans.t \in {"nofield", "noenvelope"} -> Fail(RawError(TypeError))
      [] OTHER -> Ok(<<>>)

\* PrivySigner.signMessage(base64EncodedMessage)
PrivySignMessage(base64EncodedMessage, ans) ==
    IF ~PrivyEnvelope(ans).ok THEN PrivyEnvelope(ans)
    ELSE getSignatureBytes(PrivySignatureField(ans.variant, base64EncodedMessage))

\* the signed_transaction field of a Privy answer to the wire form of
\* transaction p: every slot signed, no slot signed, only the other signers'
\* slots signed, a truncated transaction, or a transaction of another signer
\* ("foreign": the wallet address is not among its signers)
PrivyTransactionAnswers ==
    {Body(v) : v \in {"signed", "unsigned", "othersOnly", "truncated", "foreign"}}

SignedWire(variant, p) ==
    LET q == IF variant = "foreign" THEN [p EXCEPT !.signers = <<"AddrB">>] ELSE p
        messageBytes == MessageBytes(q)
        sigs == [k \in 1..Len(q.signers) |->
                    IF variant \in {"signed", "foreign"}
                       \/ (variant = "othersOnly" /\ q.signers[k] # WalletAddress)
                    THEN BackendSignature(q.signers[k], messageBytes)
                    ELSE ZeroSignature]
    IN  IF variant = "truncated" THEN Slice(WireBytes(sigs, messageBytes), 0, 40)
        ELSE WireBytes(sigs, messageBytes)

\* one task of PrivySigner.signMessages
PrivySignMessageTask(address, payload, ans) ==
    LET signatureBytes == PrivySignMessage(BytesToBase64(payload.content), ans)
    IN  IF ~signatureBytes.ok THEN signatureBytes
        ELSE createSignatureDictionary(signatureBytes.value, address)

\* one task of PrivySigner.signTransactions
PrivySignTransactionTask(address, payload, ans) ==
    IF ~PrivyEnvelope(ans).ok THEN PrivyEnvelope(ans)
    ELSE extractSignatureFromWireTransaction(BytesToBase64(SignedWire(ans.variant, payload)), address)

\* PrivySigner.fetchPublicKey, given the answer to the wallet read
PrivyWalletAnswers == {Body(v) : v \in {"AddrA", "AddrB", "not-an-address"}}

\* variant: the address of the answer is returned without assertIsAddress
fetchPublicKeyUnchecked(ans) ==
    IF ans.t = "body" THEN Ok(ans.variant) ELSE Fail(RawError(FetchError))

fetchPublicKey(ans) ==
    CASE ans.t = "netfail" -> Fail(RawError(FetchError))
      [] ans.t = "status"  -> Fail(WithResponse(SignerError(REMOTE_API_ERROR, "Privy API error", ans.status, ""), ans.variant))
      [] ans.t = "nonjson" -> Fail(RawError(SyntaxError))
      [] ans.t = "null"    -> Fail(RawError(TypeError))
      [] ans.t = "nofield" -> Fail(RawError(SolanaError))
      [] OTHER -> IF IsAddress(ans.variant) THEN Ok(ans.variant) ELSE Fail(RawError(SolanaError))

\* ---------------------------------------------------------------- turnkey
\* activity.status of the ActivityResponse of an answer: "pending" is an
\* activity that is not completed and yet carries a well-formed result
ActivityStatus(variant) ==
    IF variant = "pending" THEN "ACTIVITY_STATUS_PENDING" ELSE "ACTIVITY_STATUS_COMPLETED"

TurnkeyMessageAnswers == {Body(v) : v \in {"rs32", "rsShort", "r1s31", "r33", "s33", "pending"}}

\* the r and s fields of a signRawPayloadResult for a hex payload
TurnkeyComponents(variant, hexPayload) ==
    LET sig == BackendSignature(WalletAddress, HexToBytes(hexPayload))
        r == Slice(sig, 0, 32)
        s == Slice(sig, 32, 64)
    IN  CASE variant \in {"rs32", "pending"} -> [r |-> BytesToHex(r), s |-> BytesToHex(s)]
          [] variant = "rsShort" -> [r |-> BytesToHex(Slice(r, 28, 32)), s |-> BytesToHex(Slice(s, 28, 32))]
          [] variant = "r1s31"   -> [r |-> BytesToHex(Slice(r, 31, 32)), s |-> BytesToHex(Slice(s, 1, 32))]
          [] variant = "r33"     -> [r |-> BytesToHex(<<1>> \o r), s |-> BytesToHex(s)]
          [] OTHER               -> [r |-> BytesToHex(r), s |-> BytesToHex(<<1>> \o s)]

\* variant: the component is left-aligned, zeros follow it
PadRight(hex) ==
    LET bytes == HexToBytes(hex)
    IN  IF Len(bytes) > 32
        THEN Fail(SignerError(SIGNING_FAILED, "Invalid signature component length", 0, ""))
        ELSE Ok(bytes \o Repeat(0, 32 - Len(bytes)))

\* variant: an oversized component is cut to its last 32 bytes
PadTruncating(hex) ==
    LET bytes == HexToBytes(hex)
    IN  IF Len(bytes) > 32 THEN Ok(Slice(bytes, Len(bytes) - 32, Len(bytes)))
        ELSE Ok(Repeat(0, 32 - Len(bytes)) \o bytes)

\* TurnkeySigner.padSignatureComponent(hex)
padSignatureComponent(hex) ==
    LET bytes == HexToBytes(hex)
    IN  IF Len(bytes) > 32
        THEN Fail(SignerError(SIGNING_FAILED, "Invalid signature component length", 0, ""))
        ELSE Ok(Repeat(0, 32 - Len(bytes)) \o bytes)

\* the part of TurnkeySigner.sign / signTransaction up to the result field
TurnkeyEnvelope(ans, missing) ==
    CASE ans.t = "netfail" -> Fail(SignerError(HTTP_ERROR, "Turnkey network request failed", 0, FetchError))
      [] ans.t = "status"  -> Fail(WithResponse(SignerError(REMOTE_API_ERROR, "Turnkey API error", ans.status, ""), ans.variant))
      [] ans.t = "nonjson" -> Fail(SignerError(PARSING_ERROR, "Failed to parse Turnkey response", 0, SyntaxError))
      [] ans.t \in {"null", "noenvelope"} -> Fail(RawError(TypeError))
      [] ans.t = "nofield" -> Fail(SignerError(REMOTE_API_ERROR, missing, 0, ""))
      [] OTHER -> Ok(<<>>)

\* TurnkeySigner.sign(hexPayload), after the stamp, given the answer
TurnkeySign(hexPayload, ans) ==
    IF ~TurnkeyEnvelope(ans, "Missing signature components in Turnkey response").ok
    THEN TurnkeyEnvelope(ans, "Missing signature components in Turnkey response")
    ELSE LET signResult == TurnkeyComponents(ans.variant, hexPayload)
             rPadded == padSignatureComponent(signResult.r)
             sPadded == padSignatureComponent(signResult.s)
         IN  IF ~rPadded.ok THEN rPadded
             ELSE IF ~sPadded.ok THEN sPadded
             ELSE Ok(rPadded.value \o sPadded.value)

\* one task of TurnkeySigner.signMessages, after delay and stamp
TurnkeySignMessageTask(address, payload, ans) ==
    LET signatureBytes == TurnkeySign(BytesToHex(payload.content), ans)
    IN  IF ~signatureBytes.ok THEN signatureBytes
        ELSE createSignatureDictionary(signatureBytes.value, address)

TurnkeyTransactionAnswers == {Body(v) : v \in {"signed", "short", "empty", "pending"}}

\* the signedTransaction field (hex) of an answer to the wire form of
\* transaction p
TurnkeySignedTransaction(variant, p) ==
    CASE variant \in {"signed", "pending"} -> BytesToHex(SignedWire("signed", p))
      [] variant = "short"  -> BytesToHex(Slice(SignedWire("signed", p), 0, 40))
      [] OTHER              -> <<>>

\* one task of TurnkeySigner.signTransactions, after delay and stamp
TurnkeySignTransactionTask(address, payload, ans) ==
    IF ~TurnkeyEnvelope(ans, "Missing signedTransaction in Turnkey response").ok
    THEN TurnkeyEnvelope(ans, "Missing signedTransaction in Turnkey response")
    ELSE LET signedTransactionHex == TurnkeySignedTransaction(ans.variant, payload)
         IN  IF signedTransactionHex = <<>>
             THEN Fail(SignerError(REMOTE_API_ERROR, "Missing signedTransaction in Turnkey response", 0, ""))
             ELSE createSignatureDictionary(
                      Slice(HexToBytes(signedTransactionHex), 1, 1 + SignatureLength), address)

\* the try block of TurnkeySigner.isAvailable after the stamp was built
TurnkeyProbeAnswers == {Body(v) : v \in {"org", "different-org-id"}}

\* variant: any decoded who-am-i answer counts
TurnkeyProbeBodyReachable(organizationId, ans) == Ok(ans.t = "body")

TurnkeyProbeBody(organizationId, ans) ==
    CASE ans.t = "netfail" -> Fail(RawError(FetchError))
      [] ans.t = "status"  -> Ok(FALSE)
      [] ans.t = "nonjson" -> Fail(RawError(SyntaxError))
      [] ans.t = "null"    -> Fail(RawError(TypeError))
      [] ans.t = "nofield" -> Ok(FALSE)
      [] OTHER -> Ok(ans.variant = organizationId)

\* ------------------------------------------------------------ construction
EmptyConfig ==
    [vaultAddr |-> "", vaultToken |-> "", keyName |-> "", publicKey |-> "",
     requestDelayMs |-> <<>>, appId |-> "", appSecret |-> "", walletId |-> "",
     apiPublicKey |-> <<>>, apiPrivateKey |-> <<>>, organizationId |-> "",
     privateKeyId |-> ""]

PublicKeys == {"", "not-an-address", "AddrA"}
\* the requestDelayMs member of a configuration: <<>> when the configuration
\* has none, <<d>> when it has the value d
Delays == {<<>>, <<-1>>, <<0>>, <<100>>, <<3001>>}

VaultConfigs ==
    {[EmptyConfig EXCEPT !.vaultAddr = a, !.vaultToken = t, !.keyName = k,
                         !.publicKey = pk, !.requestDelayMs = d] :
        a \in {"", "https://vault"}, t \in {"", "token"}, k \in {"", "key"},
        pk \in PublicKeys, d \in Delays}

TurnkeyConfigs ==
    {[EmptyConfig EXCEPT !.apiPublicKey = pub, !.apiPrivateKey = priv,
                         !.organizationId = o, !.privateKeyId = k,
                         !.publicKey = pk, !.requestDelayMs = d] :
        pub \in {<<>>, GoodPublicKeyHex, ShortPublicKeyHex, OffCurvePublicKeyHex},
        priv \in {<<>>, GoodPrivateKeyHex, ShortPrivateKeyHex, LongPrivateKeyHex},
        o \in {"", "org"}, k \in {"", "key-id"}, pk \in PublicKeys, d \in Delays}

PrivyConfigs ==
    {c \in {[EmptyConfig EXCEPT !.appId = i, !.appSecret = s, !.walletId = w] :
                i \in {"", "app"}, s \in {"", "secret"}, w \in {"", "wallet"}} :
        Cardinality({f \in {c.appId, c.appSecret, c.walletId} : f = ""}) <= 1}

\* config.requestDelayMs || 0
OrZero(member) == IF member = <<>> THEN 0 ELSE member[1]

\* variant: a delay above the warning threshold is refused
validateRequestDelayMsStrict(requestDelayMs) ==
    IF requestDelayMs < 0 \/ requestDelayMs > MaxDelayWithoutWarning
    THEN Fail(SignerError(CONFIG_ERROR, "requestDelayMs must not be negative", 0, ""))
    ELSE Ok(FALSE)

\* validateRequestDelayMs(requestDelayMs): the value is whether it warned
validateRequestDelayMs(requestDelayMs) ==
    IF requestDelayMs < 0
    THEN Fail(SignerError(CONFIG_ERROR, "requestDelayMs must not be negative", 0, ""))
    ELSE Ok(requestDelayMs > MaxDelayWithoutWarning)

\* variant: the publicKey is taken as it is
AddressUnchecked(config) ==
    IF ~validateRequestDelayMs(OrZero(config.requestDelayMs)).ok
    THEN validateRequestDelayMs(OrZero(config.requestDelayMs))
    ELSE Ok(config.publicKey)

\* the publicKey checks shared by the Vault and Turnkey constructors, then
\* the delay check; the value is the address of the new adapter
AddressAndDelay(config) ==
    IF config.publicKey = ""
    THEN Fail(SignerError(CONFIG_ERROR, "Missing required publicKey field", 0, ""))
    ELSE IF ~IsAddress(config.publicKey)
    THEN Fail(SignerError(CONFIG_ERROR, "Invalid Solana public key format", 0, SolanaError))
    ELSE IF ~validateRequestDelayMs(OrZero(config.requestDelayMs)).ok
    THEN validateRequestDelayMs(OrZero(config.requestDelayMs))
    ELSE Ok(config.publicKey)

\* the console.warn calls of a constructor that returns
DelayWarnings(config) ==
    IF validateRequestDelayMs(OrZero(config.requestDelayMs)).value
    THEN <<"requestDelayMs is greater than 3000ms">>
    ELSE <<>>

\* new VaultSigner(config)
VaultConstructor(config) ==
    IF config.vaultAddr = "" \/ config.vaultToken = "" \/ config.keyName = ""
    THEN Fail(SignerError(CONFIG_ERROR, "Missing required configuration fields", 0, ""))
    ELSE AddressAndDelay(config)

\* new TurnkeySigner(config); new ApiKeyStamper only stores the key pair
TurnkeyConstructor(config) ==
    IF config.apiPublicKey = <<>> \/ config.apiPrivateKey = <<>>
          \/ config.organizationId = "" \/ config.privateKeyId = ""
    THEN Fail(SignerError(CONFIG_ERROR, "Missing required configuration fields", 0, ""))
    ELSE AddressAndDelay(config)

\* the private PrivySigner constructor stores the fields and checks none
PrivyConstructor(config) == Ok(config)

\* ------------------------------------------------------------------ state
VARIABLES
    kind,         \* which adapter the program built: "none", "vault", "privy", "turnkey"
    cfg,          \* the configuration handed to the constructor / create
    status,       \* "unconstructed", "creating" (Privy wallet fetch in flight), "ready", "failed"
    address,      \* the adapter's address field ("" while unset)
    initialized,  \* PrivySigner.initialized
    ctorError,    \* what the constructor threw / create rejected with
    call,         \* the signMessages / signTransactions call, its tasks, the order of the answers
    probe,        \* the isAvailable call and the answer it got
    lastStamp,    \* outcome of the latest ApiKeyStamper.stamp call
    sent,         \* requests handed to fetch so far
    requests,     \* what fetch was handed: callback, body, stamp header
    ncalls,       \* operations performed on the adapter so far
    reads,        \* the values the reads of the address field returned
    requestDelayMs, \* the adapter's requestDelayMs field (Vault, Turnkey)
    warnings,     \* the console.warn calls so far
    other         \* a second sign call, made while the first one is running

vars ==
    <<kind, cfg, status, address, initialized, ctorError, call, probe, lastStamp, sent, requests,
      ncalls, reads, requestDelayMs, warnings, other>>

NoCall ==
    [op |-> "none", payloads |-> <<>>, tasks |-> <<>>, outcome |-> "none",
     value |-> <<>>, error |-> NoError, answered |-> <<>>, elapsed |-> 0]

NoAns == Ans("none", 0, "")

\* a task: one async callback of the map inside Promise.all; timer is the
\* delay its setTimeout was given (0: none), sentAt the time since the start
\* of the call at which it reached fetch (-1: it did not)
Task(pc, error) ==
    [pc |-> pc, ans |-> NoAns, result |-> <<>>, error |-> error, timer |-> 0, sentAt |-> -1]

NoProbe == [pc |-> "idle", value |-> FALSE, error |-> NoError, ans |-> NoAns]

\* name and value hold the StampResult of a direct call of the stamper
NoStamp == [called |-> FALSE, ok |-> FALSE, error |-> NoError, name |-> "", value |-> <<>>]

Init ==
    /\ kind = "none"
    /\ cfg = EmptyConfig
    /\ status = "unconstructed"
    /\ address = ""
    /\ initialized = FALSE
    /\ ctorError = NoError
    /\ call = NoCall
    /\ probe = NoProbe
    /\ lastStamp = NoStamp
    /\ sent = 0
    /\ requests = {}
    /\ ncalls = 0
    /\ reads = <<>>
    /\ requestDelayMs = 0
    /\ warnings = <<>>
    /\ other = NoCall

\* --------------------------------------------------------------- payloads
MessagePayloads ==
    {[signers |-> <<>>, content |-> <<1>>], [signers |-> <<>>, content |-> <<2>>]}

TransactionPayloads ==
    {[signers |-> <<"AddrA">>, content |-> <<1>>],
     [signers |-> <<"AddrB", "AddrA">>, content |-> <<2>>]}

PayloadsOf(op) == IF op = "signMessages" THEN MessagePayloads ELSE TransactionPayloads

Batches(S) == UNION {[1..n -> S] : n \in 0..MaxBatch}

\* ------------------------------------------------------------ Promise.all
Settled(t) == t.pc \in {"fulfilled", "rejected"}

\* variant: the values in the opposite order of the tasks
PromiseAllValuesReversed(tasks) ==
    [i \in 1..Len(tasks) |-> tasks[Len(tasks) + 1 - i].result]

\* Promise.all: the values of the fulfilled tasks, by index
PromiseAllValues(tasks) == [i \in 1..Len(tasks) |-> tasks[i].result]

\* variant: Promise.allSettled keeping the fulfilled values, a rejection
\* does not reject the call
PromiseAllSettled(c, i) ==
    IF c.outcome # "pending" THEN c
    ELSE IF \A j \in 1..Len(c.tasks) : Settled(c.tasks[j])
    THEN [c EXCEPT !.outcome = "resolved",
                   !.value = SelectSeq(PromiseAllValues(c.tasks), LAMBDA r : r # <<>>)]
    ELSE c

\* variant: the call settles only once every task has settled, then rejects
\* with the error of the first rejected task by index
PromiseAllWaiting(c, i) ==
    IF c.outcome # "pending" THEN c
    ELSE IF \E j \in 1..Len(c.tasks) : ~Settled(c.tasks[j]) THEN c
    ELSE IF \E j \in 1..Len(c.tasks) : c.tasks[j].pc = "rejected"
    THEN [c EXCEPT !.outcome = "rejected",
                   !.error = c.tasks[CHOOSE j \in 1..Len(c.tasks) :
                                        /\ c.tasks[j].pc = "rejected"
                                        /\ \A k \in 1..(j - 1) : c.tasks[k].pc # "rejected"].error]
    ELSE [c EXCEPT !.outcome = "resolved", !.value = PromiseAllValues(c.tasks)]

\* Promise.all after task i settled: the first rejection rejects the call,
\* the last fulfilment resolves it, a settled call stays as it is
PromiseAll(c, i) ==
    IF c.outcome # "pending" THEN c
    ELSE IF c.tasks[i].pc = "rejected"
    THEN [c EXCEPT !.outcome = "rejected", !.error = c.tasks[i].error]
    ELSE IF \A j \in 1..Len(c.tasks) : c.tasks[j].pc = "fulfilled"
    THEN [c EXCEPT !.outcome = "resolved", !.value = PromiseAllValues(c.tasks)]
    ELSE c

\* --------------------------------------------------------------- requests
\* JSON.stringify(request) of a sign request, as the list of the members
\* that vary: Vault {input}, Privy {method, params}, Turnkey {type,
\* organizationId, parameters.signWith, parameters.payload or
\* .unsignedTransaction}
RequestBody(op, payload) ==
    CASE kind = "vault" ->
            <<"input", CHOOSE input \in
                          {BytesToBase64(messageBytes) :
                              messageBytes \in {IF op = "signMessages" THEN payload.content
                                                ELSE MessageBytes(payload)}} : TRUE>>
      [] kind = "privy" /\ op = "signMessages" -> <<"signMessage", BytesToBase64(payload.content)>>
      [] kind = "privy" -> <<"signTransaction", getBase64EncodedWireTransaction(payload)>>
      [] op = "signMessages" ->
            <<"ACTIVITY_TYPE_SIGN_RAW_PAYLOAD_V2", cfg.organizationId, cfg.privateKeyId,
              BytesToHex(payload.content)>>
      [] OTHER ->
            <<"ACTIVITY_TYPE_SIGN_TRANSACTION_V2", cfg.organizationId, cfg.privateKeyId,
              CHOOSE hexTx \in
                  {BytesToHex(txBytes) :
                      txBytes \in {Base64ToBytes(wireTransaction) :
                          wireTransaction \in {getBase64EncodedWireTransaction(payload)}}} : TRUE>>

\* JSON.stringify(request) of the who-am-i request of Turnkey; the probes of
\* Vault and Privy are GET requests without a body
ProbeRequestBody == IF kind = "turnkey" THEN <<"whoami", cfg.organizationId>> ELSE <<>>

\* variant: the stamp is computed over the parameters of the request only
StampedOverParameters(i, body) ==
    LET st == stamp(cfg.apiPrivateKey, cfg.apiPublicKey, Tail(body))
    IN  [of |-> i, body |-> body,
         stampHeaderName |-> st.value.stampHeaderName, over |-> st.value.over]

\* the fetch call of TurnkeySigner: const body = JSON.stringify(request);
\* const stamp = this.stamper.stamp(body); fetch(url, {body, headers:
\* {[stamp.stampHeaderName]: stamp.stampHeaderValue}})
StampedRequest(i, body) ==
    LET st == stamp(cfg.apiPrivateKey, cfg.apiPublicKey, body)
    IN  [of |-> i, body |-> body,
         stampHeaderName |-> st.value.stampHeaderName, over |-> st.value.over]

\* what callback i (0: isAvailable or create) hands to fetch
Request(i, body) ==
    IF kind = "turnkey" THEN StampedRequest(i, body)
    ELSE [of |-> i, body |-> body, stampHeaderName |-> "", over |-> <<>>]

StampRecord(r) == [NoStamp EXCEPT !.called = TRUE, !.ok = r.ok, !.error = r.error]

\* --------------------------------------------------------- construction
ConstructVault ==
    /\ status = "unconstructed"
    /\ \E config \in VaultConfigs :
          LET r == VaultConstructor(config)
          IN  /\ cfg' = config
              /\ status' = IF r.ok THEN "ready" ELSE "failed"
              /\ address' = IF r.ok THEN r.value ELSE ""
              /\ ctorError' = r.error
              /\ requestDelayMs' = IF r.ok THEN OrZero(config.requestDelayMs) ELSE requestDelayMs
              /\ warnings' = IF r.ok THEN warnings \o DelayWarnings(config) ELSE warnings
    /\ kind' = "vault"
    /\ UNCHANGED <<initialized, call, probe, lastStamp, sent, requests, ncalls, reads, other>>

ConstructTurnkey ==
    /\ status = "unconstructed"
    /\ \E config \in TurnkeyConfigs :
          LET r == TurnkeyConstructor(config)
          IN  /\ cfg' = config
              /\ status' = IF r.ok THEN "ready" ELSE "failed"
              /\ address' = IF r.ok THEN r.value ELSE ""
              /\ ctorError' = r.error
              /\ requestDelayMs' = IF r.ok THEN OrZero(config.requestDelayMs) ELSE requestDelayMs
              /\ warnings' = IF r.ok THEN warnings \o DelayWarnings(config) ELSE warnings
    /\ kind' = "turnkey"
    /\ UNCHANGED <<initialized, call, probe, lastStamp, sent, requests, ncalls, reads, other>>

\* PrivySigner.create up to its await: the constructor, then fetchPublicKey
\* hands the wallet read to fetch
CreatePrivy ==
    /\ status = "unconstructed"
    /\ \E config \in PrivyConfigs :
          LET r == PrivyConstructor(config)
          IN  /\ cfg' = config
              /\ status' = IF r.ok THEN "creating" ELSE "failed"
              /\ ctorError' = r.error
              /\ sent' = IF r.ok THEN sent + 1 ELSE sent
              /\ requests' = IF r.ok THEN requests \cup {Request(0, <<>>)} ELSE requests
    /\ kind' = "privy"
    /\ UNCHANGED <<address, initialized, call, probe, lastStamp, ncalls, reads, requestDelayMs, warnings, other>>

PrivyCreateAnswers == FailureAnswers \cup {Body("AddrA"), Body("not-an-address")}

\* PrivySigner.create after the wallet read was answered
CreateRespond ==
    /\ status = "creating"
    /\ \E ans \in PrivyCreateAnswers :
          LET r == fetchPublicKey(ans)
          IN  /\ status' = IF r.ok THEN "ready" ELSE "failed"
              /\ address' = IF r.ok THEN r.value ELSE address
              /\ initialized' = r.ok
              /\ ctorError' = r.error
    /\ UNCHANGED <<kind, cfg, call, probe, lastStamp, sent, requests, ncalls, reads, requestDelayMs, warnings, other>>

\* ------------------------------------------------------------ sign calls
\* delay(index) sets a timer only for a positive delay and index > 0; the
\* sequence position i is index + 1.  Privy has no pacer.
Waits(i) == kind \in {"vault", "turnkey"} /\ requestDelayMs > 0 /\ i > 1

\* variant: every later request waits the same requestDelayMs
delayFlat(delayMs, index) ==
    IF delayMs > 0 /\ index > 0 THEN delayMs ELSE 0

\* delay(index): the milliseconds handed to setTimeout, 0 when it returns
\* without a timer
delay(delayMs, index) ==
    IF delayMs > 0 /\ index > 0 THEN index * delayMs ELSE 0

\* the moment a task reaches fetch
SentAt(t, now) == IF t.pc = "inflight" THEN [t EXCEPT !.sentAt = now] ELSE t

StampNow == stamp(cfg.apiPrivateKey, cfg.apiPublicKey, "body")

\* a task from the end of its delay to its fetch call: Turnkey builds the
\* stamp first and fails without a request when it cannot
Dispatched ==
    IF kind = "turnkey" /\ ~StampNow.ok THEN Task("rejected", StampNow.error)
    ELSE Task("inflight", NoError)

Idle == \A i \in 1..Len(call.tasks) : Settled(call.tasks[i])

\* signMessages(batch) / signTransactions(batch) up to the first response:
\* map starts every task; those that need no timer reach fetch at once
StartIn(cNew, op, batches) ==
    \E batch \in batches :
          LET first == SentAt(Dispatched, 0)
              tasks == [i \in 1..Len(batch) |->
                           IF Waits(i)
                           THEN [Task("waiting", NoError) EXCEPT !.timer = delay(requestDelayMs, i - 1)]
                           ELSE first]
              c == [op |-> op, payloads |-> batch, tasks |-> tasks, outcome |-> "pending",
                    value |-> <<>>, error |-> NoError, answered |-> <<>>, elapsed |-> 0]
          IN  /\ cNew = IF Len(batch) = 0 THEN [c EXCEPT !.outcome = "resolved"] ELSE PromiseAll(c, 1)
              /\ sent' = sent + Cardinality({i \in 1..Len(batch) : tasks[i].pc = "inflight"})
              /\ requests' = requests \cup
                    {Request(i, RequestBody(op, batch[i])) :
                        i \in {j \in 1..Len(batch) : tasks[j].pc = "inflight"}}
              /\ lastStamp' = IF kind = "turnkey" /\ Len(batch) > 0
                              THEN [NoStamp EXCEPT !.called = TRUE, !.ok = first.pc = "inflight", !.error = first.error]
                              ELSE lastStamp

\* a sign call made once the one before it has returned
StartCallOf(op, batches) ==
    /\ status = "ready"
    /\ ncalls < MaxCalls
    /\ Idle
    /\ StartIn(call', op, batches)
    /\ ncalls' = ncalls + 1
    /\ UNCHANGED <<kind, cfg, status, address, initialized, ctorError, probe, reads, requestDelayMs, warnings, other>>

StartCall(op) == StartCallOf(op, Batches(PayloadsOf(op)))

SignMessages == StartCall("signMessages")

SignTransactions == StartCall("signTransactions")

\* time passes while a timer is pending (the clock of the model stops at
\* the latest delay of the call)
Tick ==
    /\ \E i \in 1..Len(call.tasks) : call.tasks[i].pc = "waiting"
    /\ \E j \in 1..Len(call.tasks) : call.elapsed < call.tasks[j].timer
    /\ call' = [call EXCEPT !.elapsed = @ + requestDelayMs]
    /\ UNCHANGED <<kind, cfg, status, address, initialized, ctorError, probe, lastStamp, sent, requests, ncalls, reads, requestDelayMs, warnings, other>>

\* variant: a timer callback runs only once every earlier request is done
TimerFiresSerialized ==
    \E i \in 1..Len(call.tasks) :
        /\ call.tasks[i].pc = "waiting"
        /\ call.elapsed >= call.tasks[i].timer
        /\ \A j \in 1..(i - 1) : Settled(call.tasks[j])
        /\ LET t == [SentAt(Dispatched, call.elapsed) EXCEPT !.timer = call.tasks[i].timer]
           IN  /\ call' = PromiseAll([call EXCEPT !.tasks[i] = t], i)
               /\ sent' = IF t.pc = "inflight" THEN sent + 1 ELSE sent
               /\ requests' = IF t.pc = "inflight"
                               THEN requests \cup {Request(i, RequestBody(call.op, call.payloads[i]))}
                               ELSE requests
               /\ lastStamp' = IF kind = "turnkey"
                               THEN [NoStamp EXCEPT !.called = TRUE, !.ok = t.pc = "inflight", !.error = t.error]
                               ELSE lastStamp
    /\ UNCHANGED <<kind, cfg, status, address, initialized, ctorError, probe, ncalls, reads, requestDelayMs, warnings, other>>

\* the timer of task i fires once its delay has passed (timers fire in the
\* order of their delays) and the task goes on to its request
TimerFires ==
    \E i \in 1..Len(call.tasks) :
        /\ call.tasks[i].pc = "waiting"
        /\ call.elapsed >= call.tasks[i].timer
        /\ \A j \in 1..(i - 1) : call.tasks[j].pc # "waiting"
        /\ LET t == [SentAt(Dispatched, call.elapsed) EXCEPT !.timer = call.tasks[i].timer]
           IN  /\ call' = PromiseAll([call EXCEPT !.tasks[i] = t], i)
               /\ sent' = IF t.pc = "inflight" THEN sent + 1 ELSE sent
               /\ requests' = IF t.pc = "inflight"
                               THEN requests \cup {Request(i, RequestBody(call.op, call.payloads[i]))}
                               ELSE requests
               /\ lastStamp' = IF kind = "turnkey"
                               THEN [NoStamp EXCEPT !.called = TRUE, !.ok = t.pc = "inflight", !.error = t.error]
                               ELSE lastStamp
    /\ UNCHANGED <<kind, cfg, status, address, initialized, ctorError, probe, ncalls, reads, requestDelayMs, warnings, other>>

SignAnswers(k, op) ==
    FailureAnswers \cup {NoEnvelope, StatusWithResult} \cup
        (CASE k = "vault" -> VaultAnswers
           [] k = "privy" /\ op = "signMessages" -> PrivyMessageAnswers
           [] k = "privy" -> PrivyTransactionAnswers
           [] k = "turnkey" /\ op = "signMessages" -> TurnkeyMessageAnswers
           [] OTHER -> TurnkeyTransactionAnswers)

\* what a task makes of the answer to its request
SignTask(k, op, addr, payload, ans) ==
    CASE k = "vault" -> VaultSignTask(addr, op, payload, ans)
      [] k = "privy" /\ op = "signMessages" -> PrivySignMessageTask(addr, payload, ans)
      [] k = "privy" -> PrivySignTransactionTask(addr, payload, ans)
      [] k = "turnkey" /\ op = "signMessages" -> TurnkeySignMessageTask(addr, payload, ans)
      [] OTHER -> TurnkeySignTransactionTask(addr, payload, ans)

\* variant: the callbacks of all calls read the payload from one buffer of
\* the adapter, which the latest call of the same operation overwrote
RespondInShared(c, cNew, answers) ==
    \E i \in 1..Len(c.tasks) :
        /\ c.tasks[i].pc = "inflight"
        /\ \E ans \in answers :
              LET p == IF other.op = c.op THEN other.payloads[Min(i, Len(other.payloads))]
                       ELSE c.payloads[i]
                  r == SignTask(kind, c.op, address, p, ans)
                  t == [c.tasks[i] EXCEPT !.pc = IF r.ok THEN "fulfilled" ELSE "rejected",
                                          !.ans = ans,
                                          !.result = IF r.ok THEN r.value ELSE <<>>,
                                          !.error = r.error]
              IN  cNew = PromiseAll([c EXCEPT !.tasks[i] = t, !.answered = @ \o <<i>>], i)

\* the backend answers the request of task i of the call c with one of the
\* answers; the task runs to its end
RespondIn(c, cNew, answers) ==
    \E i \in 1..Len(c.tasks) :
        /\ c.tasks[i].pc = "inflight"
        /\ \E ans \in answers :
              LET r == SignTask(kind, c.op, address, c.payloads[i], ans)
                  t == [c.tasks[i] EXCEPT !.pc = IF r.ok THEN "fulfilled" ELSE "rejected",
                                          !.ans = ans,
                                          !.result = IF r.ok THEN r.value ELSE <<>>,
                                          !.error = r.error]
              IN  cNew = PromiseAll([c EXCEPT !.tasks[i] = t, !.answered = @ \o <<i>>], i)

RespondWith(answers) ==
    /\ RespondIn(call, call', answers)
    /\ UNCHANGED <<kind, cfg, status, address, initialized, ctorError, probe, lastStamp, sent, requests, ncalls, reads, requestDelayMs, warnings, other>>

Respond == RespondWith(SignAnswers(kind, call.op))

\* ------------------------------------------------------------ isAvailable
ProbeAnswers(k) ==
    FailureAnswers \cup
        (CASE k = "vault" -> VaultProbeAnswers
           [] k = "privy" -> PrivyWalletAnswers
           [] OTHER -> TurnkeyProbeAnswers)

Settle(r, ans) ==
    IF r.ok THEN [pc |-> "resolved", value |-> r.value, error |-> NoError, ans |-> ans]
    ELSE [pc |-> "rejected", value |-> FALSE, error |-> r.error, ans |-> ans]

\* isAvailable() up to its fetch: Privy answers false at once when not
\* initialized, Turnkey builds the stamp inside the try block
IsAvailable ==
    /\ status = "ready"
    /\ ncalls < MaxCalls
    /\ probe.pc # "inflight"
    /\ LET st == IF kind = "turnkey" THEN StampNow ELSE Ok(<<>>)
           early == IF kind = "privy" /\ ~initialized THEN Ok(FALSE) ELSE CatchAll(st)
           sends == (kind # "privy" \/ initialized) /\ st.ok
       IN  /\ probe' = IF sends THEN [NoProbe EXCEPT !.pc = "inflight"] ELSE Settle(early, NoAns)
           /\ sent' = IF sends THEN sent + 1 ELSE sent
           /\ requests' = IF sends THEN requests \cup {Request(0, ProbeRequestBody)} ELSE requests
           /\ lastStamp' = IF kind = "turnkey" THEN StampRecord(st) ELSE lastStamp
    /\ ncalls' = ncalls + 1
    /\ UNCHANGED <<kind, cfg, status, address, initialized, ctorError, call, reads, requestDelayMs, warnings, other>>

\* variant: the probe of Privy compares the fetched address with its own
ProbeBodyOwnAddress(k, ans) ==
    CASE k = "vault" -> VaultProbeBody(ans)
      [] k = "privy" -> (IF fetchPublicKey(ans).ok THEN Ok(fetchPublicKey(ans).value = address)
                         ELSE fetchPublicKey(ans))
      [] OTHER -> TurnkeyProbeBody(cfg.organizationId, ans)

\* the try block of isAvailable after its fetch, by adapter
ProbeBody(k, ans) ==
    CASE k = "vault" -> VaultProbeBody(ans)
      [] k = "privy" -> (IF fetchPublicKey(ans).ok THEN Ok(TRUE) ELSE fetchPublicKey(ans))
      [] OTHER -> TurnkeyProbeBody(cfg.organizationId, ans)

\* variant: the probe stores the address the wallet read returned
ProbeRespondAdopting ==
    /\ probe.pc = "inflight"
    /\ \E ans \in ProbeAnswers(kind) :
          /\ probe' = Settle(CatchAll(ProbeBody(kind, ans)), ans)
          /\ address' = IF kind = "privy" /\ fetchPublicKey(ans).ok
                        THEN fetchPublicKey(ans).value ELSE address
    /\ UNCHANGED <<kind, cfg, status, initialized, ctorError, call, lastStamp, sent, requests, ncalls, reads, requestDelayMs, warnings, other>>

ProbeRespond ==
    /\ probe.pc = "inflight"
    /\ \E ans \in ProbeAnswers(kind) : probe' = Settle(CatchAll(ProbeBody(kind, ans)), ans)
    /\ UNCHANGED <<kind, cfg, status, address, initialized, ctorError, call, lastStamp, sent, requests, ncalls, reads, requestDelayMs, warnings, other>>

\* ---------------------------------------------------------- address field
\* signer.address is a plain data property of the object: reading it runs no
\* code of the adapter
ReadAddress ==
    /\ status = "ready"
    /\ ncalls < MaxCalls
    /\ reads' = Append(reads, address)
    /\ ncalls' = ncalls + 1
    /\ UNCHANGED <<kind, cfg, status, address, initialized, ctorError, call, probe, lastStamp, sent, requests, requestDelayMs, warnings, other>>

\* ------------------------------------------------------------------ spec
Next ==
    \/ ConstructVault
    \/ ConstructTurnkey
    \/ CreatePrivy
    \/ CreateRespond
    \/ SignMessages
    \/ SignTransactions
    \/ Tick
    \/ TimerFires
    \/ Respond
    \/ IsAvailable
    \/ ProbeRespond
    \/ ReadAddress

Spec == Init /\ [][Next]_vars

\* ------------------------------------------------------------------ pacer
\* the adapters that have a pacer, on batches of PacerBatch payloads; the
\* backend answers a request with a well-formed signature or not at all
PacedBatches(op) == [1..PacerBatch -> PayloadsOf(op)]

PacedSignMessages == StartCallOf("signMessages", PacedBatches("signMessages"))

PacedSignTransactions == StartCallOf("signTransactions", PacedBatches("signTransactions"))

PacedAnswers ==
    {NetFail} \cup {a \in SignAnswers(kind, call.op) : a.variant \in {"tagged", "rs32", "signed"}}

PacedRespond == RespondWith(PacedAnswers)

PacerNext ==
    \/ ConstructVault
    \/ ConstructTurnkey
    \/ PacedSignMessages
    \/ PacedSignTransactions
    \/ Tick
    \/ TimerFires
    \/ PacedRespond

PacerSpec == Init /\ [][PacerNext]_vars

\* ------------------------------------------------------------ concurrency
\* two sign calls and an isAvailable call on one adapter, each made while
\* the others may still be running; batches of ConcurrentBatch payloads,
\* the backend answers a request with a well-formed signature or not at all
ConcurrentBatches(op) == [1..ConcurrentBatch -> PayloadsOf(op)]

ConcurrentAnswers(op) ==
    {NetFail} \cup {a \in SignAnswers(kind, op) : a.variant \in {"tagged", "rs32", "signed", "sig64"}}

FirstSign(op) ==
    /\ status = "ready"
    /\ call.op = "none"
    /\ StartIn(call', op, ConcurrentBatches(op))
    /\ UNCHANGED <<kind, cfg, status, address, initialized, ctorError, probe, ncalls, reads,
                   requestDelayMs, warnings, other>>

FirstSignMessages == FirstSign("signMessages")

FirstSignTransactions == FirstSign("signTransactions")

SecondSign(op) ==
    /\ status = "ready"
    /\ call.op # "none"
    /\ other.op = "none"
    /\ StartIn(other', op, ConcurrentBatches(op))
    /\ UNCHANGED <<kind, cfg, status, address, initialized, ctorError, probe, ncalls, reads,
                   requestDelayMs, warnings, call>>

SecondSignMessages == SecondSign("signMessages")

SecondSignTransactions == SecondSign("signTransactions")

FirstRespond ==
    /\ RespondIn(call, call', ConcurrentAnswers(call.op))
    /\ UNCHANGED <<kind, cfg, status, address, initialized, ctorError, probe, lastStamp, sent, requests, ncalls,
                   reads, requestDelayMs, warnings, other>>

SecondRespond ==
    /\ RespondIn(other, other', ConcurrentAnswers(other.op))
    /\ UNCHANGED <<kind, cfg, status, address, initialized, ctorError, probe, lastStamp, sent, requests, ncalls,
                   reads, requestDelayMs, warnings, call>>

ConcurrentNext ==
    \/ ConstructVault
    \/ ConstructTurnkey
    \/ CreatePrivy
    \/ CreateRespond
    \/ FirstSignMessages
    \/ FirstSignTransactions
    \/ SecondSignMessages
    \/ SecondSignTransactions
    \/ FirstRespond
    \/ SecondRespond
    \/ IsAvailable
    \/ ProbeRespond

ConcurrentSpec == Init /\ [][ConcurrentNext]_vars

\* ---------------------------------------------------------------- stamper
\* stamper.stamp(message) called on the stamper of a Turnkey adapter
StampMessages == {"body", "hello from TKHQ!"}

Stamp ==
    /\ kind = "turnkey"
    /\ status = "ready"
    /\ \E message \in StampMessages, r \in EcdsaIntegers, sc \in EcdsaIntegers :
          LET st == stamp(cfg.apiPrivateKey, cfg.apiPublicKey, message)
              res == StampResult(cfg.apiPublicKey, BytesToHex(DerSignature(r, sc)))
          IN  lastStamp' = IF st.ok
                           THEN [StampRecord(st) EXCEPT !.name = res.stampHeaderName,
                                                        !.value = res.stampHeaderValue]
                           ELSE StampRecord(st)
    /\ UNCHANGED <<kind, cfg, status, address, initialized, ctorError, call, probe, sent, requests, ncalls, reads,
                   requestDelayMs, warnings, other>>

StampNext ==
    \/ ConstructTurnkey
    \/ Stamp

StampSpec == Init /\ [][StampNext]_vars

\* ---------------------------------------------------------------- claims
Returned == call.outcome = "resolved"

AnyTaskRejected == \E i \in 1..Len(call.tasks) : call.tasks[i].pc = "rejected"

\* C1: a sign call that resolves returns only signatures of exactly 64 bytes,
\* for every adapter, both operations and every backend answer
C1_SignaturesAre64Bytes ==
    Returned =>
        \A i \in 1..Len(call.value) :
            \A a \in DOMAIN call.value[i] : Len(call.value[i][a]) = SignatureLength

\* C2: a sign call that resolves returns one record per payload and record i
\* is the one made from payload i and the answer to its request, whatever
\* the order of the answers
C2_RecordPerPayloadInOrder ==
    Returned =>
        /\ Len(call.value) = Len(call.payloads)
        /\ \A i \in 1..Len(call.payloads) :
              call.value[i] =
                  SignTask(kind, call.op, address, call.payloads[i], call.tasks[i].ans).value

\* a resolved batch of two different payloads whose second request was
\* answered first
C2_Witness ==
    /\ Returned
    /\ Len(call.payloads) >= 2
    /\ call.payloads[1] # call.payloads[2]
    /\ call.value[1] # call.value[2]
    /\ call.answered[1] = 2

\* C3: when the operation of any payload fails the call rejects and hands
\* no record to the caller, also when other payloads succeeded
C3_AllOrNothing ==
    AnyTaskRejected => call.outcome = "rejected" /\ call.value = <<>>

\* one payload signed, another failed
C3_Witness ==
    /\ AnyTaskRejected
    /\ \E i \in 1..Len(call.tasks) : call.tasks[i].pc = "fulfilled" /\ call.tasks[i].result # <<>>
    /\ call.outcome = "rejected"

\* the probe failed: no answer, a non-success status, a body that does not
\* decode, an answer that does not match, or no stamp
ProbeFailed ==
    \/ probe.ans \in FailureAnswers
    \/ probe.ans \in {Body("nosigning"), Body("rsa"), Body("not-an-address"), Body("different-org-id")}
    \/ kind = "turnkey" /\ lastStamp.called /\ ~lastStamp.ok

\* C4: isAvailable never rejects, and resolves to false for every failure
\* of the probe
C4_IsAvailableNeverThrows ==
    /\ probe.pc # "rejected"
    /\ probe.pc = "resolved" /\ ProbeFailed => probe.value = FALSE

\* a probe settled after a failure inside the try block
C4_Witness ==
    /\ probe.pc = "resolved"
    /\ probe.value = FALSE
    /\ \/ probe.ans \in {NetFail, NonJson, JsonNull}
       \/ kind = "turnkey" /\ lastStamp.called /\ ~lastStamp.ok /\ probe.ans = NoAns

\* C5: every returned record has exactly one entry, keyed by the adapter's
\* own address
C5_OneEntryOwnAddress ==
    Returned => \A i \in 1..Len(call.value) : DOMAIN call.value[i] = {address}

\* Privy returned a record for a signed transaction with two signature slots
C5_Witness ==
    /\ Returned
    /\ kind = "privy"
    /\ call.op = "signTransactions"
    /\ \E i \in 1..Len(call.value) :
          /\ Len(call.payloads[i].signers) = 2
          /\ call.tasks[i].ans = Body("signed")
          /\ DOMAIN call.value[i] = {address}

\* C6: once the adapter is constructed no step changes its address, and a
\* read of the address returns it and sends no request
C6_AddressNeverChanges ==
    [][/\ status = "ready" => address' = address
       /\ reads' # reads => sent' = sent /\ reads' = Append(reads, address)]_vars

\* a Privy probe was answered with the address of another wallet
C6_Witness ==
    /\ kind = "privy"
    /\ probe.pc = "resolved"
    /\ probe.ans = Body("AddrB")
    /\ probe.value = TRUE
    /\ address = "AddrA"

RequiredFieldEmpty ==
    IF kind = "vault"
    THEN "" \in {cfg.vaultAddr, cfg.vaultToken, cfg.keyName, cfg.publicKey}
    ELSE \/ "" \in {cfg.organizationId, cfg.privateKeyId, cfg.publicKey}
         \/ <<>> \in {cfg.apiPublicKey, cfg.apiPrivateKey}

\* C7: a Vault or Turnkey constructor throws CONFIG_ERROR before any
\* request when a required field is empty or publicKey is no address, and
\* a constructed adapter has the configured publicKey as address
C7_ConstructorValidates ==
    kind \in {"vault", "turnkey"} =>
        /\ RequiredFieldEmpty \/ ~IsAddress(cfg.publicKey) =>
              status = "failed" /\ ctorError.code = CONFIG_ERROR /\ sent = 0 /\ address = ""
        /\ status = "ready" => address = cfg.publicKey /\ ctorError = NoError

\* a Turnkey constructor refused a publicKey that is no address
C7_Witness ==
    /\ kind = "turnkey"
    /\ ~RequiredFieldEmpty
    /\ cfg.publicKey = "not-an-address"
    /\ status = "failed"
    /\ ctorError.code = CONFIG_ERROR

\* C8: PrivySigner.create with an empty appId, appSecret or walletId
\* rejects with CONFIG_ERROR 'Missing required configuration fields'
C8_PrivyCreateValidates ==
    kind = "privy" /\ "" \in {cfg.appId, cfg.appSecret, cfg.walletId} =>
        /\ status # "ready"
        /\ status = "failed" =>
              /\ ctorError.code = CONFIG_ERROR
              /\ ctorError.message = "Missing required configuration fields"

MalformedKeyPair == ~convertTurnkeyApiKeyToJwk(cfg.apiPrivateKey, cfg.apiPublicKey).ok

\* C9: a Turnkey adapter with a malformed API key pair is refused with
\* CONFIG_ERROR at construction, so no call of a constructed adapter fails
\* because of a configuration value
C9_ConfigValidatedAtConstruction ==
    kind = "turnkey" =>
        /\ MalformedKeyPair => status = "failed" /\ ctorError.code = CONFIG_ERROR
        /\ call.outcome = "rejected" => CONFIG_ERROR \notin {call.error.code, call.error.cause}

KeyLengthWrong ==
    \/ BufferHexLength(cfg.apiPublicKey) # CompressedKeyLength
    \/ BufferHexLength(cfg.apiPrivateKey) > JWK_MEMBER_BYTE_LENGTH

\* C10: stamp(message) on a key pair whose compressed public key is not 33
\* bytes, or with a member longer than 32 bytes, fails with code CONFIG_ERROR
C10_StampFailsWithConfigError ==
    lastStamp.called /\ KeyLengthWrong =>
        ~lastStamp.ok /\ lastStamp.error.code = CONFIG_ERROR

\* the r and s bytes the backend sent to task i of a Turnkey signMessages call
ComponentBytes(i) ==
    LET c == TurnkeyComponents(call.tasks[i].ans.variant, BytesToHex(call.payloads[i].content))
    IN  [r |-> HexToBytes(c.r), s |-> HexToBytes(c.s)]

RawPayloadTasks(variants) ==
    IF kind = "turnkey" /\ call.op = "signMessages"
    THEN {i \in 1..Len(call.tasks) : call.tasks[i].ans \in {Body(v) : v \in variants}}
    ELSE {}

\* C11: Turnkey raw-payload signing returns pad32(r) followed by pad32(s):
\* 64 bytes, zeros then the bytes of r in the first half, zeros then the
\* bytes of s in the second half, for components of at most 32 bytes
C11_PaddedComponentsCombined ==
    \A i \in RawPayloadTasks({"rs32", "rsShort", "r1s31"}) :
        LET r   == ComponentBytes(i).r
            sc  == ComponentBytes(i).s
            sig == call.tasks[i].result[address]
        IN  /\ call.tasks[i].pc = "fulfilled"
            /\ Len(sig) = SignatureLength
            /\ \A k \in 1..(32 - Len(r)) : sig[k] = 0
            /\ \A k \in 1..Len(r) : sig[32 - Len(r) + k] = r[k]
            /\ \A k \in 1..(32 - Len(sc)) : sig[32 + k] = 0
            /\ \A k \in 1..Len(sc) : sig[SignatureLength - Len(sc) + k] = sc[k]

\* a signature was built from an r of one byte and an s of 31 bytes
C11_Witness ==
    \E i \in RawPayloadTasks({"r1s31"}) :
        /\ call.tasks[i].pc = "fulfilled"
        /\ Len(ComponentBytes(i).r) = 1
        /\ Len(ComponentBytes(i).s) = 31
        /\ call.tasks[i].result[address][32] # 0

\* C12: an r or s component of more than 32 bytes makes signMessages reject
\* with SIGNING_FAILED naming the invalid component length, and no
\* signature is returned
C12_OversizedComponentRejected ==
    \A i \in RawPayloadTasks({"r33", "s33"}) :
        /\ call.tasks[i].pc = "rejected"
        /\ call.tasks[i].error.code = SIGNING_FAILED
        /\ call.tasks[i].error.message = "Invalid signature component length"
        /\ call.tasks[i].result = <<>>
        /\ call.outcome = "rejected"
        /\ call.value = <<>>

\* signMessages was rejected for an s of 33 bytes, the r being well-formed
C12_Witness ==
    /\ call.outcome = "rejected"
    /\ call.error.code = SIGNING_FAILED
    /\ \E i \in RawPayloadTasks({"s33"}) :
          Len(ComponentBytes(i).s) = 33 /\ Len(ComponentBytes(i).r) = 32

\* the tasks of the call that were answered with one of the variants
TasksAnswered(variants) ==
    {i \in 1..Len(call.tasks) : call.tasks[i].ans \in {Body(v) : v \in variants}}

\* C13: the signature decoded from "vault:<version>:" + B is the signature
\* decoded from B alone, for every version marker
C13_TagIndependent ==
    kind = "vault" =>
        \A i \in TasksAnswered({"tagged", "taggedV2"}) :
            LET bare == VaultSignTask(address, call.op, call.payloads[i], Body("untagged"))
            IN  /\ bare.ok
                /\ call.tasks[i].pc = "fulfilled"
                /\ call.tasks[i].result = bare.value

\* C14: a success response with malformed signature material (empty after
\* the tag, not decodable, oversized) makes the sign call reject with
\* SIGNING_FAILED in every adapter
C14_MalformedMaterialIsSigningFailed ==
    \A i \in TasksAnswered({"tagOnly", "taggedV2", "tagged65", "notBase64", "sig65", "r33", "s33"}) :
        /\ call.tasks[i].pc = "rejected"
        /\ call.tasks[i].error.code = SIGNING_FAILED
        /\ call.outcome = "rejected"

\* the tasks of the call whose request got an answer of type t
TasksOfType(t) == {i \in 1..Len(call.tasks) : call.tasks[i].ans.t = t}

\* C15: a non-success HTTP status makes the sign call reject with
\* REMOTE_API_ERROR carrying that status, in every adapter and on both sign
\* paths; an isAvailable call that meets it resolves to false
C15_StatusIsRemoteApiError ==
    /\ \A i \in TasksOfType("status") :
          /\ call.tasks[i].pc = "rejected"
          /\ call.tasks[i].error.code = REMOTE_API_ERROR
          /\ call.tasks[i].error.status = call.tasks[i].ans.status
          /\ call.outcome = "rejected"
          /\ call.answered[1] = i => call.error = call.tasks[i].error
    /\ probe.ans.t = "status" => probe.pc = "resolved" /\ probe.value = FALSE

\* a sign call rejected with the 401 of the backend
C15_Witness ==
    /\ call.outcome = "rejected"
    /\ call.error.code = REMOTE_API_ERROR
    /\ call.error.status = Unauthorized.status
    /\ \E i \in TasksOfType("status") : call.answered[1] = i

\* C16: a success status with a body that is not JSON makes signMessages and
\* signTransactions reject with PARSING_ERROR in every adapter, and so does
\* the wallet fetch of PrivySigner.create
C16_NonJsonIsParsingError ==
    /\ \A i \in TasksOfType("nonjson") :
          call.tasks[i].pc = "rejected" /\ call.tasks[i].error.code = PARSING_ERROR
    /\ kind = "privy" /\ status = "failed" => ctorError.code # SyntaxError

\* C17: a failed network request makes signMessages and signTransactions
\* reject with HTTP_ERROR carrying the cause in every adapter, and so does
\* the wallet fetch of PrivySigner.create
C17_NetworkFailureIsHttpError ==
    /\ \A i \in TasksOfType("netfail") :
          /\ call.tasks[i].pc = "rejected"
          /\ call.tasks[i].error.code = HTTP_ERROR
          /\ call.tasks[i].error.cause = FetchError
    /\ kind = "privy" /\ status = "failed" => ctorError.code # FetchError

\* C18: a decodable success response without the expected result field
\* makes the call reject with REMOTE_API_ERROR naming the missing field
C18_MissingFieldIsRemoteApiError ==
    \A i \in TasksOfType("nofield") :
        /\ call.tasks[i].pc = "rejected"
        /\ call.tasks[i].error.code = REMOTE_API_ERROR
        /\ call.tasks[i].error.message \in
              {"Missing signature in Vault response",
               "Missing signature components in Turnkey response",
               "Missing signedTransaction in Turnkey response",
               "Missing signature in Privy response",
               "Missing signed_transaction in Privy response"}

\* the tasks of a sign call of an adapter that has a pacer
PacedTasks == IF kind \in {"vault", "turnkey"} THEN 1..Len(call.tasks) ELSE {}

\* C19: in a Vault or Turnkey sign call with request delay D the request of
\* the payload at index i is sent no earlier than i * D ms after the start
\* of the call; index 0 and every index with D = 0 set no timer and are sent
\* at once, so a batch of N payloads sets N - 1 timers of D, 2D, ..., (N-1)D
C19_RequestWaitsIndexTimesDelay ==
    /\ \A i \in PacedTasks :
          LET t == call.tasks[i]
              D == requestDelayMs
              index == i - 1
          IN  /\ t.timer = index * D
              /\ t.pc = "waiting" => D > 0 /\ index > 0 /\ t.sentAt = -1
              /\ t.sentAt # -1 => t.sentAt >= index * D
              /\ (D = 0 \/ index = 0) /\ t.sentAt # -1 => t.sentAt = 0
    /\ PacedTasks # {} /\ requestDelayMs > 0 =>
          Cardinality({i \in PacedTasks : call.tasks[i].timer > 0}) = Len(call.tasks) - 1
    /\ PacedTasks # {} /\ requestDelayMs = 0 =>
          \A i \in PacedTasks : call.tasks[i].timer = 0

\* the last request of a full batch went out when its timer fired, the
\* first one at the start of the call
C19_Witness ==
    /\ PacedTasks # {}
    /\ Len(call.tasks) = PacerBatch
    /\ requestDelayMs > 0
    /\ call.tasks[1].sentAt = 0
    /\ \A i \in 2..PacerBatch :
          /\ call.tasks[i].timer = (i - 1) * requestDelayMs
          /\ call.tasks[i].sentAt = call.tasks[i].timer

\* the timer of task i has run out and no timer set before it is pending
TimerDue(i) ==
    /\ call.tasks[i].pc = "waiting"
    /\ call.elapsed >= call.tasks[i].timer
    /\ \A j \in 1..(i - 1) : call.tasks[j].pc # "waiting"

InFlight == {i \in 1..Len(call.tasks) : call.tasks[i].pc = "inflight"}

\* C20: the pacer only staggers the starts: a request whose delay has passed
\* can be sent whatever the state of the requests before it, none of which
\* it waits for
C20_DispatchNeverWaitsForCompletion ==
    \A i \in PacedTasks : TimerDue(i) => ENABLED TimerFires

\* every request of a full paced batch is in flight at the same time
C20_Witness ==
    /\ PacedTasks # {}
    /\ requestDelayMs > 0
    /\ Len(call.tasks) = PacerBatch
    /\ InFlight = 1..PacerBatch
    /\ call.tasks[PacerBatch].sentAt > call.tasks[PacerBatch - 1].sentAt

\* the constructor of a Vault or Turnkey adapter
ConstructorOf(k, config) ==
    IF k = "vault" THEN VaultConstructor(config) ELSE TurnkeyConstructor(config)

\* C21: the Vault and Turnkey constructors throw CONFIG_ERROR for a negative
\* requestDelayMs; a value above 3000 is accepted like a small one and warns
\* once; the stored delay is the configured one, 0 when there is none
C21_RequestDelayValidated ==
    kind \in {"vault", "turnkey"} =>
        LET m == cfg.requestDelayMs
            given == m # <<>>
        IN  /\ given /\ m[1] < 0 => status = "failed" /\ ctorError.code = CONFIG_ERROR
            /\ given /\ m[1] > 3000 =>
                  /\ (status = "ready") = ConstructorOf(kind, [cfg EXCEPT !.requestDelayMs = <<0>>]).ok
                  /\ status = "ready" => Len(warnings) = 1
            /\ ~(given /\ m[1] > 3000) => warnings = <<>>
            /\ status = "ready" => requestDelayMs = (IF given THEN m[1] ELSE 0)

\* an adapter built with a delay of 3001 ms warned and signed a batch
C21_Witness ==
    /\ kind \in {"vault", "turnkey"}
    /\ cfg.requestDelayMs = <<3001>>
    /\ warnings # <<>>
    /\ call.outcome = "resolved"
    /\ Len(call.value) = MaxBatch

\* C22: PrivySigner.create sends one request, the wallet fetch, and yields
\* an instance only once a valid address was set from its answer; a failed
\* create yields none, so every sign call and every probe is made by an
\* instance that has its address
C22_PrivyNeverWithoutAddress ==
    kind = "privy" =>
        /\ status = "creating" => sent = 1 /\ address = "" /\ ~initialized
        /\ status = "failed" => sent <= 1 /\ address = "" /\ ~initialized
        /\ status = "ready" => IsAddress(address) /\ initialized
        /\ status = "ready" /\ ncalls = 0 => sent = 1
        /\ status # "ready" => call = NoCall /\ probe = NoProbe /\ reads = <<>>
        /\ call # NoCall \/ probe # NoProbe => IsAddress(address)

\* a created Privy adapter sent sign requests after its wallet fetch
C22_Witness ==
    /\ kind = "privy"
    /\ status = "ready"
    /\ address = WalletAddress
    /\ call.outcome = "resolved"
    /\ sent = 1 + Len(call.tasks)
    /\ Len(call.tasks) = MaxBatch

\* the isAvailable call of an adapter of kind k got the answer to its request
ProbeAnswered(k) == kind = k /\ probe.ans # NoAns

\* C23: Vault isAvailable resolves to true exactly when the key read got a
\* success status and a body with supports_signing true and type ed25519,
\* and to false for every other answer
C23_VaultAvailableIff ==
    ProbeAnswered("vault") =>
        /\ probe.pc = "resolved"
        /\ probe.value = (/\ probe.ans.t = "body"
                          /\ probe.ans.status = 200
                          /\ probe.ans.variant \in {"ed25519", "rsa"}
                          /\ probe.ans.variant \in {"ed25519", "nosigning"})

\* the probe of a Vault adapter resolved to true
C23_Witness ==
    /\ ProbeAnswered("vault")
    /\ probe.value = TRUE
    /\ VaultKeyData(probe.ans.variant) = [supports_signing |-> TRUE, type |-> "ed25519"]

\* the isAvailable call of an adapter of kind k has settled
ProbeSettled(k) == kind = k /\ probe.pc \in {"resolved", "rejected"}

\* C24: Turnkey isAvailable resolves to true exactly when the who-am-i
\* request got a success status and a body whose organization id is the
\* configured one, and to false in every other case
C24_TurnkeyAvailableIff ==
    ProbeSettled("turnkey") =>
        /\ probe.pc = "resolved"
        /\ probe.value = (/\ probe.ans.t = "body"
                          /\ probe.ans.status = 200
                          /\ probe.ans.variant = cfg.organizationId)

\* the probe of a Turnkey adapter resolved to true
C24_Witness ==
    /\ ProbeSettled("turnkey")
    /\ probe.value = TRUE
    /\ probe.ans = Body(cfg.organizationId)

\* C25: Privy isAvailable resolves to true exactly when the wallet re-fetch
\* got a success status and a body with a valid address, and to false in
\* every other case
C25_PrivyAvailableIff ==
    ProbeSettled("privy") =>
        /\ probe.pc = "resolved"
        /\ probe.value = (/\ probe.ans.t = "body"
                          /\ probe.ans.status = 200
                          /\ probe.ans.variant \in ValidAddresses)

\* the probe of a Privy adapter resolved to true for a wallet answer with a
\* valid address that is not the adapter's own
C25_Witness ==
    /\ ProbeSettled("privy")
    /\ probe.value = TRUE
    /\ probe.ans.variant \in ValidAddresses \ {address}

\* the requests sent before the first call on the adapter: the wallet fetch
\* of PrivySigner.create
CreateRequests == IF kind = "privy" /\ status # "unconstructed" THEN 1 ELSE 0

\* the payloads of the call whose request went out
SentTasks == {i \in 1..Len(call.tasks) : call.tasks[i].sentAt # -1}

\* C26: a payload of a sign call causes at most one request, also when the
\* request fails, and an isAvailable call causes exactly one probe request
C26_NoRetryNoCache ==
    /\ call.op # "none" =>
          /\ sent = CreateRequests + Cardinality(SentTasks)
          /\ \A i \in 1..Len(call.tasks) : Settled(call.tasks[i]) => call.tasks[i].pc # "inflight"
    /\ probe.pc # "idle" => sent = CreateRequests + 1

\* what task i of the call c makes of its answer when nothing else runs
AloneTask(c, i) == SignTask(kind, c.op, address, c.payloads[i], c.tasks[i].ans)

\* the call c is where it would be had it been the only call on the
\* adapter, given the answers its own requests got so far
CallAsAlone(c) ==
    /\ \A i \in 1..Len(c.tasks) :
          LET t == c.tasks[i]
              r == AloneTask(c, i)
          IN  /\ t.ans # NoAns =>
                    /\ t.pc = (IF r.ok THEN "fulfilled" ELSE "rejected")
                    /\ t.result = (IF r.ok THEN r.value ELSE <<>>)
                    /\ t.error = r.error
              /\ t.ans = NoAns /\ t.pc = "rejected" => kind = "turnkey" /\ t.error = StampNow.error
              /\ t.ans = NoAns => t.pc \in {"waiting", "inflight", "rejected"}
    /\ (c.outcome = "resolved") =
          (c.op # "none" /\ \A i \in 1..Len(c.tasks) : c.tasks[i].pc = "fulfilled")
    /\ c.outcome = "resolved" => c.value = [i \in 1..Len(c.tasks) |-> AloneTask(c, i).value]
    /\ (c.outcome = "rejected") = (\E i \in 1..Len(c.tasks) : c.tasks[i].pc = "rejected")
    /\ c.outcome = "rejected" =>
          \E i \in 1..Len(c.tasks) : c.tasks[i].pc = "rejected" /\ c.error = c.tasks[i].error

\* the isAvailable call is where it would be had it been the only call
ProbeAsAlone ==
    /\ probe.pc = "rejected" => FALSE
    /\ probe.pc = "resolved" /\ probe.ans # NoAns =>
          probe.value = (ProbeBody(kind, probe.ans).ok /\ ProbeBody(kind, probe.ans).value)
    /\ probe.pc = "resolved" /\ probe.ans = NoAns => probe.value = FALSE

\* the fields of the adapter object
AdapterState == <<kind, cfg, status, address, initialized, requestDelayMs>>

\* C27: with two sign calls and an isAvailable call running on one adapter
\* in any interleaving, each call has the outcome it would have alone given
\* the answers to its own requests, and no step of a call changes a field
\* of the adapter
C27_ConcurrentCallsIndependent ==
    /\ [](CallAsAlone(call) /\ CallAsAlone(other) /\ ProbeAsAlone)
    /\ [][status = "ready" => AdapterState' = AdapterState]_vars

\* a second sign call and a probe were made and returned while the request
\* of the first sign call was still in flight
C27_Witness ==
    /\ call.outcome = "pending"
    /\ other.outcome = "resolved"
    /\ other.op = call.op
    /\ other.payloads # call.payloads
    /\ probe.pc = "resolved"
    /\ probe.value = TRUE

\* Buffer.from(value, 'base64url'): the 6 bits a character stands for, -1
\* for a character outside the URL-safe alphabet
Base64UrlValue(c) ==
    CASE c \in 65..90  -> c - 65
      [] c \in 97..122 -> c - 71
      [] c \in 48..57  -> c + 4
      [] c = 45 -> 62
      [] c = 95 -> 63
      [] OTHER -> -1

Base64UrlToBytes(text) == Base64ToBytes(AsSeq([k \in 1..Len(text) |-> Base64UrlValue(text[k])]))

IsHexText(text) == \A k \in 1..Len(text) : text[k] \in (48..57) \cup (97..102)

\* the text between the opening of the signature member and the end
SignatureMemberOf(text) ==
    LET start == Len(JsonPublicKeyMember) + 2 * CompressedKeyLength + Len(JsonSchemeMember)
                    + Len(SIGNATURE_SCHEME_TK_API_P256) + Len(JsonSignatureMember)
    IN  Slice(text, start, Len(text) - Len(JsonEnd))

\* C28: a stamp the stamper returns is named X-Stamp and its value is
\* URL-safe base64 without '+', '/' or '=' of the JSON object with the
\* members publicKey (the configured key), scheme
\* (SIGNATURE_SCHEME_TK_API_P256) and signature (hex, beginning with 30),
\* and no other member
C28_StampIsBase64UrlJson ==
    lastStamp.called /\ lastStamp.ok =>
        /\ lastStamp.name = "X-Stamp"
        /\ \A k \in 1..Len(lastStamp.value) :
              lastStamp.value[k] \notin {43, 47, 61} /\ Base64UrlValue(lastStamp.value[k]) # -1
        /\ LET text == Base64UrlToBytes(lastStamp.value)
               sig == SignatureMemberOf(text)
           IN  /\ text = JsonPublicKeyMember \o HexText(cfg.apiPublicKey)
                            \o JsonSchemeMember \o SIGNATURE_SCHEME_TK_API_P256
                            \o JsonSignatureMember \o sig \o JsonEnd
               /\ IsHexText(sig)
               /\ Len(sig) > 2
               /\ sig[1] = 51 /\ sig[2] = 48

\* a stamp whose base64 text would need padding
C28_Witness ==
    /\ lastStamp.called
    /\ lastStamp.ok
    /\ Len(lastStamp.value) % 4 # 0

\* the tasks of a Turnkey signTransactions call that got a signed transaction
SignedTransactionTasks ==
    IF kind = "turnkey" /\ call.op = "signTransactions"
    THEN {i \in 1..Len(call.tasks) :
             /\ call.tasks[i].ans.t = "body"
             /\ TurnkeySignedTransaction(call.tasks[i].ans.variant, call.payloads[i]) # <<>>}
    ELSE {}

\* the bytes of the signed transaction task i got
SignedTransactionBytes(i) ==
    HexToBytes(TurnkeySignedTransaction(call.tasks[i].ans.variant, call.payloads[i]))

\* C29: Turnkey signTransactions returns for each payload exactly 64 bytes,
\* those at offsets 1 to 64 of the signed transaction the backend returned
C29_SliceAfterCountIs64Bytes ==
    \A i \in SignedTransactionTasks :
        /\ call.tasks[i].pc = "fulfilled"
        /\ DOMAIN call.tasks[i].result = {address}
        /\ Len(call.tasks[i].result[address]) = SignatureLength
        /\ \A k \in 1..SignatureLength :
              call.tasks[i].result[address][k] = SignedTransactionBytes(i)[1 + k]


\* the signatures the signed transaction of task i holds, by signer address,
\* as getTransactionDecoder().decode reads them
SignedTransactionSignatures(i) == DecodeTransaction(SignedTransactionBytes(i))

\* the Turnkey signTransactions callbacks whose signed transaction decodes
\* and holds a signature for the address of the adapter
SignedForAddressTasks ==
    {i \in SignedTransactionTasks :
        /\ SignedTransactionSignatures(i).ok
        /\ address \in DOMAIN SignedTransactionSignatures(i).value.signatures
        /\ SignedTransactionSignatures(i).value.signatures[address] # <<>>}

\* C30: the signature Turnkey signTransactions returns under the address of
\* the adapter is the signature the signed transaction of the backend holds
\* for that same address, at whatever position the address stands among the
\* signers of the transaction.
C30_SignatureIsTheAdaptersOwn ==
    \A i \in SignedForAddressTasks :
        /\ call.tasks[i].pc = "fulfilled"
        /\ DOMAIN call.tasks[i].result = {address}
        /\ call.tasks[i].result[address]
              = SignedTransactionSignatures(i).value.signatures[address]

\* the transaction a Privy signTransactions callback got as signed_transaction
PrivySignedTransaction(i) ==
    DecodeTransaction(SignedWire(call.tasks[i].ans.variant, call.payloads[i]))

\* the Privy signTransactions callbacks that got a decodable transaction
PrivyDecodedTasks ==
    IF kind = "privy" /\ call.op = "signTransactions"
    THEN {i \in 1..Len(call.tasks) :
             call.tasks[i].ans.t = "body" /\ PrivySignedTransaction(i).ok}
    ELSE {}

\* the decoded transaction of callback i holds a signature for the address
HoldsOwnSignature(i) ==
    /\ address \in DOMAIN PrivySignedTransaction(i).value.signatures
    /\ PrivySignedTransaction(i).value.signatures[address] # <<>>

\* C31: Privy signTransactions rejects with SIGNING_FAILED whenever the signed
\* transaction of the backend holds no signature for the adapter's address
\* (the address is not among its signers, or its slot is empty); what it
\* returns under the address is never the signature of another signer.
C31_NoOwnSignatureIsSigningFailed ==
    \A i \in PrivyDecodedTasks :
        IF HoldsOwnSignature(i)
        THEN /\ call.tasks[i].pc = "fulfilled"
             /\ call.tasks[i].result[address]
                   = PrivySignedTransaction(i).value.signatures[address]
        ELSE /\ call.tasks[i].pc = "rejected"
             /\ call.tasks[i].error.code = SIGNING_FAILED
             /\ call.outcome = "rejected"

\* both cases happen: a transaction of another signer, and an empty slot next
\* to the signed slot of another signer
C31_Witness ==
    /\ \E i \in PrivyDecodedTasks :
          address \notin DOMAIN PrivySignedTransaction(i).value.signatures
    /\ \E i \in PrivyDecodedTasks :
          /\ address \in DOMAIN PrivySignedTransaction(i).value.signatures
          /\ PrivySignedTransaction(i).value.signatures[address] = <<>>
          /\ \E a \in DOMAIN PrivySignedTransaction(i).value.signatures :
                PrivySignedTransaction(i).value.signatures[a] # <<>>

\* the sign requests of the adapters that classify every step of a request
\* themselves (Vault, Turnkey), by the answer they got
ClassifiedTasks(types, variants) ==
    IF kind \in {"vault", "turnkey"}
    THEN {i \in 1..Len(call.tasks) :
             /\ call.tasks[i].ans.t \in types
             /\ call.tasks[i].ans.t = "body" => call.tasks[i].ans.variant \in variants}
    ELSE {}

\* the callbacks in a set all rejected with one of the codes
RejectedWith(tasks, codes) ==
    \A i \in tasks :
        /\ call.tasks[i].pc = "rejected"
        /\ call.tasks[i].error.code \in codes
        /\ call.outcome = "rejected"

\* C32: the failure of a sign request is classified by the first check that
\* fails: transport failure HTTP_ERROR; else a non-success status
\* REMOTE_API_ERROR whatever the body; else an undecodable body PARSING_ERROR;
\* else a missing result field REMOTE_API_ERROR (a JSON value without the
\* envelope may count as either of the two); else malformed signature
\* material SIGNING_FAILED.
C32_FirstFailingCheckClassifies ==
    /\ RejectedWith(ClassifiedTasks({"netfail"}, {}), {HTTP_ERROR})
    /\ RejectedWith(ClassifiedTasks({"status"}, {}), {REMOTE_API_ERROR})
    /\ RejectedWith(ClassifiedTasks({"nonjson"}, {}), {PARSING_ERROR})
    /\ RejectedWith(ClassifiedTasks({"null", "noenvelope"}, {}), {PARSING_ERROR, REMOTE_API_ERROR})
    /\ RejectedWith(ClassifiedTasks({"nofield"}, {}), {REMOTE_API_ERROR})
    /\ RejectedWith(ClassifiedTasks({"body"}, {"empty"}), {REMOTE_API_ERROR})
    /\ RejectedWith(ClassifiedTasks({"body"}, {"tagOnly", "tagged63", "tagged65", "r33", "s33", "short"}),
                    {SIGNING_FAILED})

\* the codes a rejection of a sign call may carry
SharedTaxonomy == {HTTP_ERROR, REMOTE_API_ERROR, PARSING_ERROR, SIGNING_FAILED}

\* C33: every rejection of signMessages or signTransactions, in every
\* adapter, is a SignerError with a code of the shared taxonomy; a success
\* response whose JSON lacks the envelope object is rejected with such a code.
C33_RejectionsAreClassified ==
    /\ call.outcome = "rejected" => call.error.code \in SharedTaxonomy
    /\ \A i \in TasksOfType("noenvelope") :
          /\ call.tasks[i].pc = "rejected"
          /\ call.tasks[i].error.code \in SharedTaxonomy

\* C34: every REMOTE_API_ERROR raised for a non-success status, in each of
\* the three adapters, carries the HTTP status and the raw body of the
\* response in its context.
C34_StatusErrorCarriesStatusAndBody ==
    \A i \in TasksOfType("status") :
        /\ call.tasks[i].pc = "rejected"
        /\ call.tasks[i].error.code = REMOTE_API_ERROR
        /\ call.tasks[i].error.status = call.tasks[i].ans.status
        /\ call.tasks[i].error.response = call.tasks[i].ans.variant

\* C35: every request the Turnkey adapter sends (raw-payload sign,
\* transaction sign, who-am-i probe) carries the stamp header, and the stamp
\* was computed over exactly the string sent as the body of that request; if
\* the stamp cannot be built, no request is sent.
C35_StampOverTheBodySent ==
    kind = "turnkey" =>
        /\ \A r \in requests : r.stampHeaderName = "X-Stamp" /\ r.over = r.body
        /\ \A i \in SentTasks :
              \E r \in requests : r.of = i /\ r.body = RequestBody(call.op, call.payloads[i])
        /\ probe.ans # NoAns => \E r \in requests : r.of = 0 /\ r.body = ProbeRequestBody
        /\ ~stamp(cfg.apiPrivateKey, cfg.apiPublicKey, "body").ok => requests = {} /\ sent = 0

\* two stamped sign requests with different bodies are out
C35_Witness ==
    /\ kind = "turnkey"
    /\ Cardinality(SentTasks) = 2
    /\ \E r1 \in requests, r2 \in requests : r1.body # r2.body /\ r1.over = r1.body /\ r2.over = r2.body

\* C36: with a usable public key, stamp(message) succeeds for a private key
\* of at most 32 bytes (a shorter one is left-padded with zeros to 32 bytes)
\* and fails only for one of more than 32 bytes.
C36_ShortPrivateScalarAccepted ==
    lastStamp.called /\ cfg.apiPublicKey = GoodPublicKeyHex =>
        (lastStamp.ok <=> BufferHexLength(cfg.apiPrivateKey) <= JWK_MEMBER_BYTE_LENGTH)

\* C37: a sign call rejects as soon as the operation of the first failing
\* payload fails, with the error of that payload, whatever the state of the
\* operations of the other payloads (in flight or waiting on the pacer); the
\* rejection and its error stay as they are when the others finish (until
\* the next call is made).
C37_FailureSurfacesImmediately ==
    /\ [](/\ AnyTaskRejected => call.outcome = "rejected"
          /\ call.outcome = "rejected" =>
                \E i \in 1..Len(call.tasks) :
                    call.tasks[i].pc = "rejected" /\ call.error = call.tasks[i].error)
    /\ [][call.outcome = "rejected" /\ ncalls' = ncalls =>
              call'.outcome = "rejected" /\ call'.error = call.error]_vars

\* a call rejected while one request is in flight and one payload waits on
\* the pacer
C37_Witness ==
    /\ call.outcome = "rejected"
    /\ \E i \in 1..Len(call.tasks) : call.tasks[i].pc = "inflight"
    /\ \E i \in 1..Len(call.tasks) : call.tasks[i].pc = "waiting"

\* C38: once a sign call has rejected, no further request is sent for the
\* payloads of that call: a payload whose pacer wait has not elapsed when the
\* call rejects is never dispatched.
C38_NoRequestAfterRejection ==
    [][call.outcome = "rejected" =>
          \A i \in 1..Len(call.tasks) : call'.tasks[i].sentAt = call.tasks[i].sentAt]_vars

\* the Turnkey sign requests answered with success status and an activity
\* that is not completed
UncompletedTasks ==
    IF kind = "turnkey"
    THEN {i \in 1..Len(call.tasks) :
             /\ call.tasks[i].ans.t = "body"
             /\ ActivityStatus(call.tasks[i].ans.variant) # "ACTIVITY_STATUS_COMPLETED"}
    ELSE {}

\* C39: a Turnkey sign response with a success status whose activity is not
\* completed never yields a signature: the request is rejected with
\* REMOTE_API_ERROR, also when the body carries a result with signature
\* material.
C39_UncompletedActivityRejected ==
    \A i \in UncompletedTasks :
        /\ call.tasks[i].pc = "rejected"
        /\ call.tasks[i].error.code = REMOTE_API_ERROR
        /\ call.tasks[i].result = <<>>

====
